---- MODULE Spec2Model ----
(***************************************************************************)
(* Durability engine of the satellite-coordinated object store: the        *)
(* metainfo endpoint (satellite/metainfo/metainfo.go), the audit verifier  *)
(* (package audit, found in pkg/overlay/selection_test.go) and the segment *)
(* repairer (package segments, unnamed/part_000), with the client segment  *)
(* store that the tests in pkg/storage/segments/store_test.go drive.       *)
(*                                                                         *)
(* Bytes are elements of a small prime field standing in for GF(2^8); one  *)
(* erasure share is one field element (share size 1).  Paths are sequences *)
(* of path components, storj.JoinPaths being concatenation.                *)
(***************************************************************************)
EXTENDS Integers, Sequences, FiniteSets, TLC

\* ------------------------------------------------------------------------
\* Bounds
\* ------------------------------------------------------------------------
\* the storage nodes of the test network (StorageNodeCount)
NumNodes == 4

MaxByte == 1
MaxInlineSize == 1
MaxEncryptedSegmentSize == 3

\* order of the prime field that stands in for the byte field of the
\* Reed-Solomon code
FieldOrder == 5

Nodes == 1..NumNodes
ByteVals == 0..MaxByte
Metas == {"m1"}
ProjectID == "proj"

\* ------------------------------------------------------------------------
\* Generic helpers
\* ------------------------------------------------------------------------
Range(s) == {s[i] : i \in DOMAIN s}

RECURSIVE SetToSeq(_)
\* the elements of a finite set of integers in increasing order
SetToSeq(S) ==
    IF S = {} THEN <<>>
    ELSE LET m == CHOOSE x \in S : \A y \in S : x <= y
         IN <<m>> \o SetToSeq(S \ {m})

RECURSIVE Orders(_)
\* the orders in which the entries of a collection can be met: the sequences
\* that list every element of the set S once
Orders(S) ==
    IF S = {} THEN {<<>>}
    ELSE UNION {{<<x>> \o rest : rest \in Orders(S \ {x})} : x \in S}

\* a range statement over a map: the keys of the map in the order the run
\* meets them.  The order of a map is not fixed, a run meets the keys in the
\* order iteration lists them
RangeOver(keys, iteration) == SelectSeq(iteration, LAMBDA key : key \in keys)

RECURSIVE SelectSeqP(_, _)
\* the subsequence of the elements of s whose index is in the set I
SelectSeqP(s, I) ==
    IF s = <<>> THEN <<>>
    ELSE LET n == Len(s)
             front == SelectSeqP(SubSeq(s, 1, n - 1), I)
         IN IF n \in I THEN Append(front, s[n]) ELSE front

SeqsUpTo(S, n) == UNION {[1..m -> S] : m \in 0..n}

\* ------------------------------------------------------------------------
\* Erasure code: systematic Reed-Solomon (k, n) with evaluation points
\* 0..n-1; share number i of a stripe is the value at i of the polynomial of
\* degree < k through (0, d0) .. (k-1, d(k-1)).
\* ------------------------------------------------------------------------
FInv(a) == CHOOSE b \in 1..(FieldOrder - 1) : (a * b) % FieldOrder = 1

RECURSIVE FProd(_, _, _)
\* product over q in pts of (x - q.x) / (px - q.x)
FProd(pts, px, x) ==
    IF pts = {} THEN 1
    ELSE LET q == CHOOSE q \in pts : TRUE
         IN (((x - q[1]) % FieldOrder) * FInv((px - q[1]) % FieldOrder)
             * FProd(pts \ {q}, px, x)) % FieldOrder

RECURSIVE FSum(_, _, _)
FSum(todo, pts, x) ==
    IF todo = {} THEN 0
    ELSE LET p == CHOOSE p \in todo : TRUE
         IN (p[2] * FProd(pts \ {p}, p[1], x) + FSum(todo \ {p}, pts, x)) % FieldOrder

\* value at x of the polynomial of degree < |pts| through the points pts
Interpolate(pts, x) == FSum(pts, pts, x)

\* fec.EncodeSingle: share number num of the stripe
EncodeSingle(stripe, num) ==
    LET k == Len(stripe)
    IN IF num < k THEN stripe[num + 1]
       ELSE Interpolate({<<j, stripe[j + 1]>> : j \in 0..(k - 1)}, num)

\* the k lowest-numbered shares of a set of <<number, value>> shares
LowestK(shares, k) ==
    {s \in shares : Cardinality({t \in shares : t[1] < s[1]}) < k}

\* fec.Rebuild: the stripe (k data shares) from k or more consistent shares
Rebuild(shares, k) ==
    LET pts == LowestK(shares, k)
    IN [j \in 1..k |-> Interpolate(pts, j - 1)]

\* the shares that lie on the polynomial through the k-subset pts
Agreeing(shares, pts) == {s \in shares : Interpolate(pts, s[1]) = s[2]}

KSubsets(S, k) == {T \in SUBSET S : Cardinality(T) = k}

\* fec.Correct (Berlekamp-Welch): shares is a set of <<number, value>>.
\* Result: [err, shares] where err is "" on success.  With no inconsistency
\* the shares are returned unchanged; otherwise up to (len - k) / 2 wrong
\* shares are replaced by the values of the unique codeword that agrees with
\* all the others, and the call fails when no such codeword exists.
Correct(shares, k) ==
    LET len == Cardinality(shares)
        e == (len - k) \div 2
        good == {pts \in KSubsets(shares, k) :
                    Cardinality(Agreeing(shares, pts)) >= len - e}
    IN IF len < k THEN [err |-> "NotEnoughShares", shares |-> {}]
       ELSE IF \E pts \in KSubsets(shares, k) : Agreeing(shares, pts) = shares
            THEN [err |-> "", shares |-> shares]
       ELSE IF e <= 0 THEN [err |-> "NotEnoughShares", shares |-> {}]
       ELSE IF good = {} THEN [err |-> "TooManyErrors", shares |-> {}]
       ELSE LET pts == CHOOSE pts \in good : TRUE
            IN [err |-> "",
                shares |-> {<<s[1], Interpolate(pts, s[1])>> : s \in shares}]

\* pkcrypto.SHA256Hash of a share: an injective tag on the share bytes
SHA256Hash(data) == <<"sha256", data>>

\* ------------------------------------------------------------------------
\* Data model
\* ------------------------------------------------------------------------
\* redundancy schemes (min, repair, optimal, total) the runs draw from
Scheme(k, m, o, n) ==
    [nil |-> FALSE, min |-> k, repair |-> m, optimal |-> o, total |-> n,
     shareSize |-> 1]
\* the scheme of a message that carries none (a nil *pb.RedundancyScheme)
NilRedundancy ==
    [nil |-> TRUE, min |-> 0, repair |-> 0, optimal |-> 0, total |-> 0,
     shareSize |-> 0]
Schemes == {Scheme(2, 2, 4, 4), Scheme(2, 3, 3, 4), Scheme(2, 4, 4, 4)}

\* an instant that is not set
NoTime == 0

NilRemote == [nil |-> TRUE, root |-> 0, redundancy |-> NilRedundancy,
              pieces |-> <<>>]

InlinePointer(data, meta) ==
    [nil |-> FALSE, type |-> "INLINE", inline |-> data, size |-> Len(data),
     meta |-> meta,
     expiration |-> NoTime, modified |-> NoTime, remote |-> NilRemote]

RemotePointer(size, meta, root, redundancy, pieces) ==
    [nil |-> FALSE, type |-> "REMOTE", inline |-> <<>>, size |-> size,
     meta |-> meta,
     expiration |-> NoTime, modified |-> NoTime,
     remote |-> [nil |-> FALSE, root |-> root, redundancy |-> redundancy,
                 pieces |-> pieces]]

RemotePiece(num, node) == [num |-> num, node |-> node]

\* PieceID.Derive(nodeID)
Derive(root, node) == <<root, node>>
ZeroPieceID == <<0, 0>>

NilLimit == [nil |-> TRUE, node |-> 0, pieceId |-> ZeroPieceID,
             action |-> "", signed |-> FALSE]
OrderLimit(node, pieceId, action) ==
    [nil |-> FALSE, node |-> node, pieceId |-> pieceId, action |-> action,
     signed |-> TRUE]

\* no pointer: the nil *pb.Pointer of a request or a response without one
NoPointer == [InlinePointer(<<>>, "") EXCEPT !.nil = TRUE]

PieceNodes(pieces) == {pieces[i].node : i \in DOMAIN pieces}
PieceNums(pieces) == {pieces[i].num : i \in DOMAIN pieces}

\* API keys.  A request carries a key or none; a key parses or not, is known
\* to the satellite (apiKeys.GetByHead) or not, and carries caveats.  A caveat
\* names the operations it forbids, the (bucket, path prefix) pairs it allows
\* (none: every path), and the instants between which it is valid (NoTime:
\* unset).
Ops == {"Read", "Write", "List", "Delete"}
Times == {1, 2, 3}
Caveat(disallow, paths, notBefore, notAfter) ==
    [disallow |-> disallow, paths |-> paths, notBefore |-> notBefore,
     notAfter |-> notAfter]
AllowedPath(bucket, prefix) == [bucket |-> bucket, prefix |-> prefix]
ApiKey(present, parses, known, caveats) ==
    [present |-> present, parses |-> parses, known |-> known,
     caveats |-> caveats]
FullKey == ApiKey(TRUE, TRUE, TRUE, {})
Restricted(caveat) == ApiKey(TRUE, TRUE, TRUE, {caveat})

\* macaroon.Action
Action(op, bucket, path, time) ==
    [op |-> op, bucket |-> bucket, path |-> path, time |-> time]

HasPrefix(s, prefix) ==
    Len(prefix) <= Len(s) /\ SubSeq(s, 1, Len(prefix)) = prefix

\* Caveat.Allows
CaveatAllows(caveat, action) ==
    /\ action.op \notin caveat.disallow
    /\ caveat.notBefore # NoTime => action.time >= caveat.notBefore
    /\ caveat.notAfter # NoTime => action.time <= caveat.notAfter
    /\ caveat.paths # {} =>
          \E p \in caveat.paths :
              p.bucket = action.bucket /\ HasPrefix(action.path, p.prefix)

\* APIKey.Check: every caveat of the key allows the action
MacaroonCheck(key, action) ==
    \A caveat \in key.caveats : CaveatAllows(caveat, action)

\* ------------------------------------------------------------------------
\* Listing the pointer database
\* ------------------------------------------------------------------------
\* keys of the pointer database as byte strings; 47 is the '/' that
\* separates the components of a path
Delimiter == 47

\* the most items one listing returns, and what a limit of zero stands for
LookupLimit == 1000

RECURSIVE JoinKey(_)
\* the components joined by the delimiter
JoinKey(parts) ==
    IF Len(parts) = 0 THEN <<>>
    ELSE IF Len(parts) = 1 THEN parts[1]
    ELSE parts[1] \o <<Delimiter>> \o JoinKey(Tail(parts))

\* bytewise lexicographic order
KeyLess(a, b) ==
    \E i \in 1..(Len(a) + 1) :
        /\ i <= Len(b)
        /\ \A j \in 1..(i - 1) : a[j] = b[j]
        /\ (i = Len(a) + 1 \/ a[i] < b[i])

RECURSIVE SortKeys(_)
\* the keys of a set in increasing order, as the store iterates them
SortKeys(S) ==
    IF S = {} THEN <<>>
    ELSE LET m == CHOOSE x \in S : \A y \in S \ {x} : KeyLess(x, y)
         IN <<m>> \o SortKeys(S \ {m})

\* the key listed under: the prefix closed by a delimiter
PrefixKey(prefix) ==
    IF prefix # <<>> /\ prefix[Len(prefix)] # Delimiter
    THEN Append(prefix, Delimiter)
    ELSE prefix

ListItem(path, isPrefix) == [path |-> path, isPrefix |-> isPrefix]

\* the position of the first delimiter of a key, 0 when it has none
FirstDelimiter(key) ==
    IF \E i \in DOMAIN key : key[i] = Delimiter
    THEN CHOOSE i \in DOMAIN key :
             key[i] = Delimiter /\ \A j \in 1..(i - 1) : key[j] # Delimiter
    ELSE 0

\* a listing that never collapses
CollapseNever(relative, recursive) == ListItem(relative, FALSE)

\* the item a key is listed as, its path relative to the prefix key: itself,
\* or when the listing is not recursive and the key continues below its first
\* component, that component with the delimiter, as a prefix
Collapse(relative, recursive) ==
    LET d == FirstDelimiter(relative)
    IN IF recursive \/ d = 0
       THEN ListItem(relative, FALSE)
       ELSE ListItem(SubSeq(relative, 1, d), TRUE)

RECURSIVE ListWalk(_, _, _, _, _)
\* the walk over the sorted keys: an item equal to the last one taken or not
\* after the cursor is passed over, the walk stops with more = TRUE at the
\* first item beyond the limit
ListWalk(keys, startAfter, recursive, limit, items) ==
    IF keys = <<>> THEN [items |-> items, more |-> FALSE]
    ELSE LET item == Collapse(Head(keys), recursive)
             skip == \/ (items # <<>> /\ items[Len(items)] = item)
                     \/ (startAfter # <<>> /\ ~KeyLess(startAfter, item.path))
         IN IF skip THEN ListWalk(Tail(keys), startAfter, recursive, limit, items)
            ELSE IF Len(items) = limit THEN [items |-> items, more |-> TRUE]
            ELSE ListWalk(Tail(keys), startAfter, recursive, limit, Append(items, item))

\* the keys under the prefix key, relative to it
RelativeKeys(keys, prefix) ==
    {SubSeq(k, Len(PrefixKey(prefix)) + 1, Len(k)) :
        k \in {k \in keys : HasPrefix(k, PrefixKey(prefix))}}

\* metainfo.Service.List: the items under a prefix after the cursor, at most
\* limit of them; a limit of zero or less, or above the lookup limit, is the
\* lookup limit
List(keys, prefix, startAfter, recursive, limit) ==
    LET most == IF limit <= 0 \/ limit > LookupLimit THEN LookupLimit ELSE limit
    IN ListWalk(SortKeys(RelativeKeys(keys, prefix)), startAfter, recursive, most, <<>>)

\* ------------------------------------------------------------------------
\* Metainfo endpoint
\* ------------------------------------------------------------------------
\* Endpoint.validateAuth: TRUE when the key is accepted for the action
validateAuthNoCaveats(key, action) ==
    key.present /\ key.parses /\ key.known
validateAuth(key, action) ==
    /\ key.present
    /\ key.parses
    /\ key.known
    /\ MacaroonCheck(key, action)

\* a bucket is the sequence of its "/"-separated parts
validateBucket(bucket) ==
    IF Len(bucket) = 0 THEN "bucket not specified"
    ELSE IF Len(bucket) > 1 THEN "bucket should not contain slash"
    ELSE ""

SegmentComponent(segmentIndex) ==
    IF segmentIndex = -1 THEN "l"
    ELSE IF segmentIndex = 0 THEN "s0"
    ELSE IF segmentIndex = 1 THEN "s1"
    ELSE "s2"

\* CreatePath: [err, path]
CreatePath(projectID, segmentIndex, bucket, path) ==
    IF segmentIndex < -1 THEN [err |-> "invalid segment index", path |-> <<>>]
    ELSE [err |-> "",
          path |-> <<projectID, SegmentComponent(segmentIndex)>> \o bucket \o path]

\* createBucketID(projectID, bucket) of the endpoint
EndpointBucketID(projectID, bucket) == <<projectID>> \o bucket

\* an empty repeated field arrives as nil
validatePointer(pointer) ==
    IF pointer.nil THEN "no pointer specified"
    ELSE IF pointer.type = "REMOTE"
    THEN IF pointer.remote.nil THEN "no remote segment specified"
         ELSE IF Len(pointer.remote.pieces) = 0
              THEN "no remote segment pieces specified"
         ELSE IF pointer.remote.redundancy.nil
              THEN "no redundancy scheme specified"
         ELSE ""
    ELSE ""

RECURSIVE validatePieces(_, _, _)
\* the loop of validateCommit over remote.RemotePieces; "panic" is the
\* run-time fault of indexing OriginalLimits out of range or of
\* dereferencing a nil limit
validatePieces(pieces, root, limits) ==
    IF pieces = <<>> THEN ""
    ELSE LET piece == Head(pieces)
         IN IF piece.num < 0 \/ piece.num >= Len(limits) THEN "panic"
            ELSE LET limit == limits[piece.num + 1]
                 IN IF ~limit.signed THEN "invalid signature"
                    ELSE IF limit.nil THEN "invalid no order limit for piece"
                    ELSE IF limit.pieceId = ZeroPieceID
                            \/ limit.pieceId # Derive(root, piece.node)
                         THEN "invalid order limit piece id"
                    ELSE IF piece.node # limit.node
                         THEN "piece NodeID != order limit NodeID"
                    ELSE validatePieces(Tail(pieces), root, limits)

validateCommitSkipsPieces(req) ==
    IF validatePointer(req.pointer) # "" THEN validatePointer(req.pointer)
    ELSE IF req.pointer.type = "REMOTE"
    THEN IF Len(req.limits) = 0 THEN "no order limits"
         ELSE IF Len(req.limits) # req.pointer.remote.redundancy.total
              THEN "invalid no order limit for piece"
         ELSE ""
    ELSE ""
validateCommit(req) ==
    IF validatePointer(req.pointer) # "" THEN validatePointer(req.pointer)
    ELSE IF req.pointer.type = "REMOTE"
    THEN IF Len(req.limits) = 0 THEN "no order limits"
         ELSE IF Len(req.limits) # req.pointer.remote.redundancy.total
              THEN "invalid no order limit for piece"
         ELSE validatePieces(req.pointer.remote.pieces, req.pointer.remote.root,
                             req.limits)
    ELSE ""

RepairThresholdMessage ==
    "Number of valid pieces is less than or equal to the repair threshold"

\* filterValidPieces: [err, pointer]; hash verification is disabled, every
\* piece is kept
filterValidPiecesDropLast(pointer) ==
    IF pointer.type = "REMOTE" /\ Len(pointer.remote.pieces) > 0
    THEN [err |-> "",
          pointer |-> [pointer EXCEPT !.remote.pieces =
                          SubSeq(pointer.remote.pieces, 1,
                                 Len(pointer.remote.pieces) - 1)]]
    ELSE [err |-> "", pointer |-> pointer]
filterValidPieces(pointer) ==
    IF pointer.type = "REMOTE"
    THEN LET remote == pointer.remote
             remotePieces == remote.pieces
         IN IF Len(remotePieces) <= remote.redundancy.repair
               /\ remote.redundancy.repair # remote.redundancy.optimal
            THEN [err |-> RepairThresholdMessage, pointer |-> pointer]
            ELSE [err |-> "", pointer |-> pointer]
    ELSE [err |-> "", pointer |-> pointer]

\* metainfo.Service.Put / Get / Delete over the pointer database, a function
\* from the stored paths to their pointers
DbPut(db, path, pointer) ==
    [p \in (DOMAIN db) \cup {path} |-> IF p = path THEN pointer ELSE db[p]]
DbHas(db, path) == path \in DOMAIN db
DbDelete(db, path) == [p \in (DOMAIN db) \ {path} |-> db[p]]
EmptyDb == [p \in {} |-> InlinePointer(<<>>, "m1")]

CommitResult(status, msg, db, pointer) ==
    [status |-> status, msg |-> msg, db |-> db, pointer |-> pointer]

\* metainfo.Service.Put, as CommitSegment and Repair call it: the pointer is
\* stored with the instant of the call as its modification time
Stamped(pointer, now) == [pointer EXCEPT !.modified = now]

\* calculateSpaceUsed: [panic, inline, remote], the bytes the pointer adds to
\* the inline and to the remote usage of the project; panic is the run-time
\* fault of the division by a MinReq of zero
calculateSpaceUsed(ptr) ==
    LET used(panic, inline, remote) ==
            [panic |-> panic, inline |-> inline, remote |-> remote]
    IN IF ptr.inline # <<>> THEN used(FALSE, Len(ptr.inline), 0)
       ELSE IF ptr.remote.nil THEN used(FALSE, 0, 0)
       ELSE IF ptr.remote.redundancy.min = 0 THEN used(TRUE, 0, 0)
       ELSE used(FALSE, 0, (ptr.size \div ptr.remote.redundancy.min)
                               * Len(ptr.remote.pieces))

\* Endpoint.CommitSegment up to its metainfo.Put: the checks it makes on the
\* request and the space it counts, [status, msg, path, pointer] with the
\* path and the pointer to store when the status is OK
CommitChecks(req) ==
    LET refuse(status, msg) ==
            [status |-> status, msg |-> msg, path |-> <<>>, pointer |-> NoPointer]
    IN IF ~validateAuth(req.key, Action("Write", req.bucket, req.path, req.now))
       THEN refuse("Unauthenticated", "")
       ELSE IF validateBucket(req.bucket) # ""
       THEN refuse("InvalidArgument", validateBucket(req.bucket))
       ELSE IF validateCommit(req) = "panic" THEN refuse("panic", "")
       ELSE IF validateCommit(req) # "" THEN refuse("Internal", validateCommit(req))
       ELSE IF filterValidPieces(req.pointer).err # ""
       THEN refuse("Internal", filterValidPieces(req.pointer).err)
       ELSE LET cp == CreatePath(ProjectID, req.segment, req.bucket, req.path)
            IN IF cp.err # "" THEN refuse("InvalidArgument", cp.err)
               ELSE IF calculateSpaceUsed(req.pointer).panic THEN refuse("panic", "")
               ELSE [status |-> "OK", msg |-> "", path |-> cp.path,
                     pointer |-> Stamped(filterValidPieces(req.pointer).pointer,
                                         req.now)]


\* orders.Service.CreateGetOrderLimits: one GET limit per piece of the
\* pointer, at the index of its piece number, none for a node the overlay
\* knows to be offline
CreateGetOrderLimits(pointer, online) ==
    LET remote == pointer.remote
    IN [i \in 1..remote.redundancy.total |->
          IF \E j \in DOMAIN remote.pieces :
                remote.pieces[j].num = i - 1 /\ remote.pieces[j].node \in online
          THEN LET j == CHOOSE j \in DOMAIN remote.pieces :
                            remote.pieces[j].num = i - 1
                                /\ remote.pieces[j].node \in online
               IN OrderLimit(remote.pieces[j].node,
                             Derive(remote.root, remote.pieces[j].node), "GET")
          ELSE NilLimit]

DownloadResult(status, pointer, limits) ==
    [status |-> status, pointer |-> pointer, limits |-> limits]

\* Endpoint.DownloadSegment: req = [key, bucket, path, segment]; exceeded is
\* the answer of projectUsage.ExceedsBandwidthUsage
DownloadSegment(db, req, online, exceeded) ==
    IF ~validateAuth(req.key, Action("Read", req.bucket, req.path, req.now))
    THEN DownloadResult("Unauthenticated", NoPointer, <<>>)
    ELSE IF validateBucket(req.bucket) # ""
    THEN DownloadResult("InvalidArgument", NoPointer, <<>>)
    ELSE IF exceeded THEN DownloadResult("ResourceExhausted", NoPointer, <<>>)
    ELSE LET cp == CreatePath(ProjectID, req.segment, req.bucket, req.path)
         IN IF cp.err # "" THEN DownloadResult("InvalidArgument", NoPointer, <<>>)
            ELSE IF ~DbHas(db, cp.path)
            THEN DownloadResult("NotFound", NoPointer, <<>>)
            ELSE LET pointer == db[cp.path]
                 IN IF pointer.type = "INLINE"
                    THEN DownloadResult("OK", pointer, <<>>)
                    ELSE IF pointer.type = "REMOTE" /\ ~pointer.remote.nil
                    THEN DownloadResult("OK", pointer,
                                        CreateGetOrderLimits(pointer, online))
                    ELSE DownloadResult("OK", NoPointer, <<>>)

\* "panic" is the run-time fault of reading a field of a nil scheme
validateRedundancy(redundancy) ==
    IF redundancy.nil THEN "panic"
    ELSE IF redundancy.shareSize <= 0
    THEN "erasure share size cannot be less than 0"
    ELSE ""

\* orders.Service.CreatePutOrderLimits: a fresh root piece ID and one PUT
\* limit per selected node, limit i addressing node i
CreatePutOrderLimits(root, nodes) ==
    [i \in DOMAIN nodes |-> OrderLimit(nodes[i], Derive(root, nodes[i]), "PUT")]

\* eestream.NewRedundancyStrategyFromProto: an erasure code of min out of
\* total shares, and thresholds that are the total when zero and otherwise
\* lie between min and total, the repair threshold not above the optimal one
NewRedundancyStrategyFromProto(redundancy) ==
    LET repair == IF redundancy.repair = 0 THEN redundancy.total ELSE redundancy.repair
        optimal == IF redundancy.optimal = 0 THEN redundancy.total ELSE redundancy.optimal
    IN IF redundancy.min < 1 \/ redundancy.total < redundancy.min
       THEN "invalid erasure code"
       ELSE IF repair < redundancy.min \/ repair > redundancy.total
       THEN "invalid repair threshold"
       ELSE IF optimal < redundancy.min \/ optimal > redundancy.total
       THEN "invalid optimal threshold"
       ELSE IF repair > optimal
       THEN "repair threshold greater than optimal threshold"
       ELSE ""

CreateResult(status, limits, root) ==
    [status |-> status, limits |-> limits, root |-> root]

\* Endpoint.CreateSegment: req = [key, bucket, path, segment, redundancy];
\* exceeded is the answer of projectUsage.ExceedsStorageUsage, found =
\* [err, nodes] the answer of overlay FindStorageNodes, root the root piece
\* ID the orders service draws
CreateSegment(req, found, root, exceeded) ==
    IF ~validateAuth(req.key, Action("Write", req.bucket, req.path, req.now))
    THEN CreateResult("Unauthenticated", <<>>, 0)
    ELSE IF validateBucket(req.bucket) # "" THEN CreateResult("InvalidArgument", <<>>, 0)
    ELSE IF validateRedundancy(req.redundancy) = "panic"
    THEN CreateResult("panic", <<>>, 0)
    ELSE IF validateRedundancy(req.redundancy) # ""
    THEN CreateResult("InvalidArgument", <<>>, 0)
    ELSE IF exceeded THEN CreateResult("ResourceExhausted", <<>>, 0)
    ELSE IF NewRedundancyStrategyFromProto(req.redundancy) # ""
    THEN CreateResult("Unknown", <<>>, 0)
    ELSE IF found.err # "" THEN CreateResult("Internal", <<>>, 0)
    ELSE CreateResult("OK", CreatePutOrderLimits(root, found.nodes), root)

InfoResult(status, pointer) == [status |-> status, pointer |-> pointer]

\* Endpoint.SegmentInfo: req = [key, now, bucket, path, segment]
SegmentInfoNoPointer(db, req) ==
    IF ~validateAuth(req.key, Action("Read", req.bucket, req.path, req.now))
    THEN InfoResult("Unauthenticated", NoPointer)
    ELSE IF validateBucket(req.bucket) # ""
    THEN InfoResult("InvalidArgument", NoPointer)
    ELSE LET cp == CreatePath(ProjectID, req.segment, req.bucket, req.path)
         IN IF cp.err # "" THEN InfoResult("InvalidArgument", NoPointer)
            ELSE IF ~DbHas(db, cp.path) THEN InfoResult("NotFound", NoPointer)
            ELSE InfoResult("OK", NoPointer)
SegmentInfo(db, req) ==
    IF ~validateAuth(req.key, Action("Read", req.bucket, req.path, req.now))
    THEN InfoResult("Unauthenticated", NoPointer)
    ELSE IF validateBucket(req.bucket) # ""
    THEN InfoResult("InvalidArgument", NoPointer)
    ELSE LET cp == CreatePath(ProjectID, req.segment, req.bucket, req.path)
         IN IF cp.err # "" THEN InfoResult("InvalidArgument", NoPointer)
            ELSE IF ~DbHas(db, cp.path) THEN InfoResult("NotFound", NoPointer)
            ELSE InfoResult("OK", db[cp.path])

\* orders.Service.CreateDeleteOrderLimits: one DELETE limit per piece of the
\* pointer
CreateDeleteOrderLimits(pointer) ==
    LET remote == pointer.remote
    IN [j \in DOMAIN remote.pieces |->
          OrderLimit(remote.pieces[j].node,
                     Derive(remote.root, remote.pieces[j].node), "DELETE")]

DeleteResult(status, db, limits) ==
    [status |-> status, db |-> db, limits |-> limits]


\* ------------------------------------------------------------------------
\* The handlers call by call
\* ------------------------------------------------------------------------
\* where a handler stands between two of its database calls: the call it
\* makes next, the path it works on, the pointer it read, and the pieces
\* whose nodes it has still to take out of containment
RpcRun(pc, path, pointer, left) ==
    [pc |-> pc, path |-> path, pointer |-> pointer, left |-> left]
NoRpcRun == RpcRun("", <<>>, NoPointer, <<>>)

\* what one call of a handler leaves: its new position, its response once it
\* has returned (status "" until then), and the two databases
Step(run, status, msg, pointer, limits, db, cont) ==
    [run |-> run, status |-> status, msg |-> msg, pointer |-> pointer,
     limits |-> limits, db |-> db, containment |-> cont]
Goes(run, db, cont) == Step(run, "", "", NoPointer, <<>>, db, cont)
Ends(status, msg, pointer, limits, db, cont) ==
    Step(NoRpcRun, status, msg, pointer, limits, db, cont)

\* Endpoint.CommitSegment from its start to its metainfo.Put; fail is the
\* service that errors: "" (none), "put" (metainfo.Put), "orders"
\* (UpdatePutInlineOrder) or "get" (metainfo.Get)
CommitPut(req, fail, db, cont) ==
    LET c == CommitChecks(req)
    IN IF c.status # "OK" THEN Ends(c.status, c.msg, NoPointer, <<>>, db, cont)
       ELSE IF fail = "put" THEN Ends("Internal", "put", NoPointer, <<>>, db, cont)
       ELSE Goes(RpcRun(IF req.pointer.type = "INLINE" THEN "order" ELSE "get",
                        c.path, NoPointer, <<>>),
                 DbPut(db, c.path, c.pointer), cont)

\* Endpoint.CommitSegment, the inline segment: orders.UpdatePutInlineOrder
CommitOrder(fail, run, db, cont) ==
    IF fail = "orders" THEN Ends("Internal", "orders", NoPointer, <<>>, db, cont)
    ELSE Goes([run EXCEPT !.pc = "get"], db, cont)

\* Endpoint.CommitSegment: metainfo.Get of the path and the response, the
\* pointer that was read
CommitGet(fail, run, db, cont) ==
    IF fail = "get" \/ ~DbHas(db, run.path)
    THEN Ends("Internal", "get", NoPointer, <<>>, db, cont)
    ELSE Ends("OK", "", db[run.path], <<>>, db, cont)

\* Endpoint.DeleteSegment from its start to its metainfo.Get; fail is the
\* service that errors: "" (none), "delete" (metainfo.Delete), "identity"
\* (PeerIdentityFromContext), "containment" (containment.Delete) or
\* "limits" (CreateDeleteOrderLimits)
DeleteGet(req, db, cont) ==
    IF ~validateAuth(req.key, Action("Delete", req.bucket, req.path, req.now))
    THEN Ends("Unauthenticated", "", NoPointer, <<>>, db, cont)
    ELSE IF validateBucket(req.bucket) # ""
    THEN Ends("InvalidArgument", validateBucket(req.bucket), NoPointer, <<>>, db, cont)
    ELSE LET cp == CreatePath(ProjectID, req.segment, req.bucket, req.path)
         IN IF cp.err # ""
            THEN Ends("InvalidArgument", cp.err, NoPointer, <<>>, db, cont)
            ELSE IF ~DbHas(db, cp.path)
            THEN Ends("NotFound", "", NoPointer, <<>>, db, cont)
            ELSE Goes(RpcRun("delete", cp.path, db[cp.path], <<>>), db, cont)

\* Endpoint.DeleteSegment: metainfo.Delete of the path; missing is the answer
\* of the key-value store when the key is no longer there, an error with
\* some stores and none with others
DeleteDelete(fail, missing, run, db, cont) ==
    IF fail = "delete" \/ (~DbHas(db, run.path) /\ missing)
    THEN Ends("Internal", "delete", NoPointer, <<>>, db, cont)
    ELSE IF run.pointer.type = "REMOTE" /\ ~run.pointer.remote.nil
    THEN IF fail = "identity"
         THEN Ends("Internal", "identity", NoPointer, <<>>,
                   DbDelete(db, run.path), cont)
         ELSE Goes([run EXCEPT !.pc = IF run.pointer.remote.pieces = <<>>
                                      THEN "limits" ELSE "contain",
                               !.left = run.pointer.remote.pieces],
                   DbDelete(db, run.path), cont)
    ELSE Ends("OK", "", NoPointer, <<>>, DbDelete(db, run.path), cont)

\* Endpoint.DeleteSegment: one turn of the loop over the pieces,
\* containment.Delete of the node of the piece
DeleteContain(fail, run, db, cont) ==
    IF fail = "containment"
    THEN Ends("Internal", "containment", NoPointer, <<>>, db, cont)
    ELSE Goes([run EXCEPT !.pc = IF Len(run.left) = 1 THEN "limits" ELSE "contain",
                          !.left = Tail(run.left)],
              db, [n \in (DOMAIN cont) \ {Head(run.left).node} |-> cont[n]])

\* Endpoint.DeleteSegment: CreateDeleteOrderLimits and the response
DeleteLimits(fail, run, db, cont) ==
    IF fail = "limits" THEN Ends("Internal", "limits", NoPointer, <<>>, db, cont)
    ELSE Ends("OK", "", NoPointer, CreateDeleteOrderLimits(run.pointer), db, cont)

\* the call a handler makes at the position it stands at
HandlerStep(fail, missing, run, db, cont) ==
    CASE run.pc = "order" -> CommitOrder(fail, run, db, cont)
      [] run.pc = "get" -> CommitGet(fail, run, db, cont)
      [] run.pc = "delete" -> DeleteDelete(fail, missing, run, db, cont)
      [] run.pc = "contain" -> DeleteContain(fail, run, db, cont)
      [] run.pc = "limits" -> DeleteLimits(fail, run, db, cont)

RECURSIVE RunAlone(_, _)
\* a handler that makes its calls with no other operation at work in
\* between; a service that fails does so at the first call made to it
RunAlone(fail, step) ==
    IF step.run = NoRpcRun THEN step
    ELSE RunAlone(fail, HandlerStep(fail, FALSE, step.run, step.db,
                                    step.containment))

\* Endpoint.CommitSegment: req = [key, now, bucket, path, segment, pointer,
\* limits]; the result carries the status code, the message of the error,
\* the pointer database it leaves and the pointer read back after the Put
CommitSegmentMissingPut(db, req) ==
    CommitResult("OK", "", db, req.pointer)
CommitSegment(db, req) ==
    LET end == RunAlone("", CommitPut(req, "", db, <<>>))
    IN CommitResult(end.status, end.msg, end.db, end.pointer)

\* Endpoint.DeleteSegment: req = [key, now, bucket, path, segment]; the
\* result carries the status code, the pointer database it leaves and the
\* DELETE limits
DeleteSegmentKeepsPointer(db, req, fail) ==
    IF ~validateAuth(req.key, Action("Delete", req.bucket, req.path, req.now))
    THEN DeleteResult("Unauthenticated", db, <<>>)
    ELSE IF validateBucket(req.bucket) # ""
    THEN DeleteResult("InvalidArgument", db, <<>>)
    ELSE LET cp == CreatePath(ProjectID, req.segment, req.bucket, req.path)
         IN IF cp.err # "" THEN DeleteResult("InvalidArgument", db, <<>>)
            ELSE IF ~DbHas(db, cp.path) THEN DeleteResult("NotFound", db, <<>>)
            ELSE LET pointer == db[cp.path]
                 IN IF pointer.type = "REMOTE" /\ ~pointer.remote.nil
                    THEN IF fail # "" THEN DeleteResult("Internal", db, <<>>)
                         ELSE DeleteResult("OK", db,
                                           CreateDeleteOrderLimits(pointer))
                    ELSE DeleteResult("OK", db, <<>>)
DeleteSegment(db, req, fail) ==
    LET end == RunAlone(fail, DeleteGet(req, db, <<>>))
    IN DeleteResult(end.status, end.db, end.limits)

ListResult(status, items, more) ==
    [status |-> status, items |-> items, more |-> more]

\* the names the paths of the requests are made of, byte by byte
NameBytes ==
    (ProjectID :> <<112, 114, 111, 106>>) @@ ("l" :> <<108>>)
        @@ ("s0" :> <<115, 48>>) @@ ("s1" :> <<115, 49>>) @@ ("s2" :> <<115, 50>>)
        @@ ("bucket" :> <<98, 117, 99, 107, 101, 116>>) @@ ("b" :> <<98>>)
        @@ ("x" :> <<120>>) @@ ("p" :> <<112>>) @@ ("q" :> <<113>>)
        @@ ("AAAA" :> <<65, 65, 65, 65>>) @@ ("BBBB" :> <<66, 66, 66, 66>>)
        @@ ("CCCC" :> <<67, 67, 67, 67>>)
        @@ ("afile1" :> <<97, 102, 105, 108, 101, 49>>)
        @@ ("bfile2" :> <<98, 102, 105, 108, 101, 50>>)
        @@ ("bfolder" :> <<98, 102, 111, 108, 100, 101, 114>>)
        @@ ("file1" :> <<102, 105, 108, 101, 49>>)

\* storj.JoinPaths: the key of the pointer database a path stands for
PathKey(path) == JoinKey([i \in DOMAIN path |-> NameBytes[path[i]]])

\* Endpoint.ListSegments: req = [key, now, bucket, path, startAfter,
\* recursive, limit] with path the requested prefix; the items are relative
\* to the prefix
ListSegments(db, req) ==
    IF ~validateAuth(req.key, Action("List", req.bucket, req.path, req.now))
    THEN ListResult("Unauthenticated", <<>>, FALSE)
    ELSE LET cp == CreatePath(ProjectID, -1, req.bucket, req.path)
         IN IF cp.err # "" THEN ListResult("InvalidArgument", <<>>, FALSE)
            ELSE LET listed == List({PathKey(p) : p \in DOMAIN db},
                                    PathKey(cp.path), req.startAfter,
                                    req.recursive, req.limit)
                 IN ListResult("OK", listed.items, listed.more)

\* ------------------------------------------------------------------------
\* Segment store (client side)
\* ------------------------------------------------------------------------
\* segments.CalcNeededNodes: the number of pieces a download asks for, the
\* minimum plus a share of the pieces above the success threshold, at least
\* one, and never more than the total
CalcNeededNodesNoExtra(redundancy) ==
    LET extra == IF redundancy.optimal > 0
                 THEN ((redundancy.total - redundancy.optimal) * redundancy.min)
                          \div redundancy.optimal
                 ELSE 1
        needed == redundancy.min + extra
    IN IF needed > redundancy.total THEN redundancy.total ELSE needed
CalcNeededNodes(redundancy) ==
    LET share == IF redundancy.optimal > 0
                 THEN ((redundancy.total - redundancy.optimal) * redundancy.min)
                          \div redundancy.optimal
                 ELSE 1
        extra == IF share = 0 THEN 1 ELSE share
        needed == redundancy.min + extra
    IN IF needed > redundancy.total THEN redundancy.total ELSE needed

\* a store path is segment/bucket/rest; its segment index
StoreSegmentIndex(path) == IF path[1] = "l" THEN -1 ELSE 0
StoreBucket(path) == <<path[2]>>
StoreRest(path) == SubSeq(path, 3, Len(path))

NumStripes(size, k) == (size + k - 1) \div k

\* stripe number s (from 1) of the data, zero padded to k bytes
StripeOf(data, k, s) ==
    [j \in 1..k |-> IF (s - 1) * k + j <= Len(data) THEN data[(s - 1) * k + j] ELSE 0]

\* the piece with number num: its share of every stripe
PieceData(data, k, num) ==
    [s \in 1..NumStripes(Len(data), k) |-> EncodeSingle(StripeOf(data, k, s), num)]

RECURSIVE DecodeStripes(_, _, _)
\* the stripes 1..s decoded from the pieces held, a set of [num, data]
DecodeStripes(held, k, s) ==
    IF s = 0 THEN <<>>
    ELSE DecodeStripes(held, k, s - 1)
            \o Rebuild({<<h.num, h.data[s]>> : h \in held}, k)

\* ------------------------------------------------------------------------
\* Audit verifier: pure parts
\* ------------------------------------------------------------------------
\* an error value by the classes the verifier tests: it is the bare
\* context.DeadlineExceeded, it has the transport.Error class, it has the
\* ContainError class
NoError == [nil |-> TRUE, deadline |-> FALSE, transport |-> FALSE, contain |-> FALSE]
ErrDeadline == [nil |-> FALSE, deadline |-> TRUE, transport |-> FALSE, contain |-> FALSE]
ErrTransport == [nil |-> FALSE, deadline |-> FALSE, transport |-> TRUE, contain |-> FALSE]
ErrOther == [nil |-> FALSE, deadline |-> FALSE, transport |-> FALSE, contain |-> FALSE]

\* what a storage node does with a share download
Responses == {"good", "corrupt", "deadline", "transport", "other"}

\* Verifier.GetShare: dial the node of the limit and read, of the piece the
\* limit names, the share at the stripe index; held is the share the node
\* was given there, pieceNum the number the caller labels the share with; a
\* node serving altered data returns another byte than the share it was given
GetShare(held, pieceNum, response) ==
    IF response = "good"
    THEN [err |-> NoError, num |-> pieceNum, data |-> held]
    ELSE IF response = "corrupt"
    THEN [err |-> NoError, num |-> pieceNum, data |-> (held + 1) % FieldOrder]
    ELSE IF response = "deadline"
    THEN [err |-> ErrDeadline, num |-> pieceNum, data |-> 0]
    ELSE IF response = "transport"
    THEN [err |-> ErrTransport, num |-> pieceNum, data |-> 0]
    ELSE [err |-> ErrOther, num |-> pieceNum, data |-> 0]

\* orders.Service.CreateAuditOrderLimits: a GET_AUDIT limit at the index of
\* every piece whose node is not skipped and is online in the overlay
CreateAuditOrderLimits(pointer, skip, online) ==
    LET remote == pointer.remote
    IN [i \in 1..remote.redundancy.total |->
          IF \E j \in DOMAIN remote.pieces :
                /\ remote.pieces[j].num = i - 1
                /\ remote.pieces[j].node \notin skip
                /\ remote.pieces[j].node \in online
          THEN LET j == CHOOSE j \in DOMAIN remote.pieces :
                            /\ remote.pieces[j].num = i - 1
                            /\ remote.pieces[j].node \notin skip
                            /\ remote.pieces[j].node \in online
               IN OrderLimit(remote.pieces[j].node,
                             Derive(remote.root, remote.pieces[j].node), "GET_AUDIT")
          ELSE NilLimit]

\* Verifier.DownloadShares: one share per non-nil limit, keyed by piece
\* number; resp[i] is the response of the node of limit i
DownloadShares(limits, stripeData, resp) ==
    LET nums == {i - 1 : i \in {j \in DOMAIN limits : ~limits[j].nil}}
    IN [shares |-> [num \in nums |->
                       GetShare(EncodeSingle(stripeData, num), num, resp[num])],
        nodes |-> [num \in nums |-> limits[num + 1].node]]

\* the test of Verify on a failed share: TRUE for contained, FALSE for offline
IsContainedErrorSwapped(err) ==
    ~(err.deadline \/ ~err.transport \/ err.contain)
IsContainedError(err) ==
    err.deadline \/ ~err.transport \/ err.contain

\* the threshold test of Verify
TooFewSharesOffByOne(count, required) == count < required - 1
TooFewShares(count, required) == count < required

\* auditShares: [err, pieceNums, corrected].  makeCopies ranges over the map
\* of the originals, so the copies are in the order the run meets them (the
\* order f.Correct leaves the slice in, whatever it is, is one of these);
\* pieceNums lists, copy by copy, the numbers of the copies the correction
\* has changed
auditSharesByIndex(required, originals, iteration) ==
    LET copies == RangeOver(DOMAIN originals, iteration)
        res == Correct({<<num, originals[num].data>> : num \in DOMAIN originals},
                       required)
        correctedData(num) == (CHOOSE c \in res.shares : c[1] = num)[2]
        altered == {i \in DOMAIN copies :
                       \/ i - 1 \notin DOMAIN originals
                       \/ originals[i - 1].data # correctedData(copies[i])}
    IN IF res.err # "" THEN [err |-> res.err, pieceNums |-> <<>>, corrected |-> {}]
       ELSE [err |-> "",
             pieceNums |-> SelectSeqP(copies, altered),
             corrected |-> res.shares]
auditShares(required, originals, iteration) ==
    LET copies == RangeOver(DOMAIN originals, iteration)
        res == Correct({<<num, originals[num].data>> : num \in DOMAIN originals},
                       required)
        correctedData(num) == (CHOOSE c \in res.shares : c[1] = num)[2]
        altered == {i \in DOMAIN copies :
                       originals[copies[i]].data # correctedData(copies[i])}
    IN IF res.err # "" THEN [err |-> res.err, pieceNums |-> <<>>, corrected |-> {}]
       ELSE [err |-> "",
             pieceNums |-> SelectSeqP(copies, altered),
             corrected |-> res.shares]

\* getSuccessNodes: the nodes of the map nodes, in the order the run meets
\* them, that are in none of the three collections
getSuccessNodes(nodes, failedNodes, offlineNodes, containedNodes, iteration) ==
    LET fails == Range(failedNodes) \cup Range(offlineNodes)
                    \cup {containedNodes[num] : num \in DOMAIN containedNodes}
        met == RangeOver(DOMAIN nodes, iteration)
    IN SelectSeq([i \in DOMAIN met |-> nodes[met[i]]],
                 LAMBDA node : node \notin fails)

NilPendingAudit ==
    [nil |-> TRUE, nodeID |-> 0, pieceID |-> 0, stripeIndex |-> 0, shareSize |-> 0,
     expectedShareHash |-> SHA256Hash(0)]
PendingAudit(nodeID, pieceID, stripeIndex, shareSize, hash) ==
    [nil |-> FALSE, nodeID |-> nodeID, pieceID |-> pieceID,
     stripeIndex |-> stripeIndex, shareSize |-> shareSize,
     expectedShareHash |-> hash]

\* createPendingAudits: [err, audits]; containedNodes maps piece numbers to
\* node IDs
createPendingAudits(containedNodes, correctedShares, stripe, iteration) ==
    IF Cardinality(DOMAIN containedNodes) > 0
    THEN [err |-> "", audits |-> <<>>]
    ELSE LET redundancy == stripe.pointer.remote.redundancy
             stripeData == Rebuild(correctedShares, redundancy.min)
             nums == RangeOver(DOMAIN containedNodes, iteration)
         IN [err |-> "",
             audits |-> [j \in 1..Len(nums) |->
                 PendingAudit(containedNodes[nums[j]], stripe.pointer.remote.root,
                              stripe.index, redundancy.shareSize,
                              SHA256Hash(EncodeSingle(stripeData, nums[j])))]]

\* Report: the four lists of a report
Report(successes, fails, offlines, pendingAudits) ==
    [successes |-> successes, fails |-> fails, offlines |-> offlines,
     pendingAudits |-> pendingAudits]
EmptyReport == Report(<<>>, <<>>, <<>>, <<>>)

\* what a run of Verify or Reverify returned (hasReport, report, err) and
\* the locals it ended with: the nodes it had a limit for and dialled with
\* it, the nodes it classified contained and offline, the nodes whose share
\* went into the correction, whether the correction succeeded and the
\* corrected shares
AuditRun(op, hasReport, rep, err, trace) ==
    [op |-> op, hasReport |-> hasReport, report |-> rep, err |-> err,
     trace |-> trace]
NoTrace ==
    [limited |-> {}, contained |-> {}, offline |-> {}, audited |-> {},
     corrected |-> FALSE, correctedShares |-> {}]

\* Verifier.Verify.  iteration is the order in which the run meets the piece
\* numbers of the downloaded shares when it ranges over one of its maps
\* (shares, originals, nodes, containedNodes, all keyed by those numbers):
\* every range statement has an order of its own, and as the lists the
\* range statements fill are of different piece numbers, the orders of
\* one list of the piece numbers, each range statement taking its keys
\* from it, give every combination of orders of the lists
Verify(stripe, skip, online, ordersErr, resp, iteration) ==
    LET pointer == stripe.pointer
        orderLimits == CreateAuditOrderLimits(pointer, skip, online)
        dl == DownloadShares(orderLimits, stripe.data, resp)
        shares == dl.shares
        nodes == dl.nodes
        failedNums == {num \in DOMAIN shares : ~shares[num].err.nil}
        containedNums == {num \in failedNums : IsContainedError(shares[num].err)}
        containedNodes == [num \in containedNums |-> nodes[num]]
        offlineNums == RangeOver(failedNums \ containedNums, iteration)
        offlineNodes == [i \in DOMAIN offlineNums |-> nodes[offlineNums[i]]]
        sharesToAudit == [num \in (DOMAIN shares) \ failedNums |-> shares[num]]
        required == pointer.remote.redundancy.min
        audit == auditShares(required, sharesToAudit, iteration)
        failedNodes == [i \in DOMAIN audit.pieceNums |-> nodes[audit.pieceNums[i]]]
        successNodes == getSuccessNodes(nodes, failedNodes, offlineNodes,
                                        containedNodes, iteration)
        pending == createPendingAudits(containedNodes, audit.corrected, stripe,
                                       iteration)
        trace == [limited |-> {nodes[num] : num \in DOMAIN nodes},
                  contained |-> {nodes[num] : num \in containedNums},
                  offline |-> Range(offlineNodes),
                  audited |-> {nodes[num] : num \in DOMAIN sharesToAudit},
                  corrected |-> FALSE, correctedShares |-> {}]
    IN IF ordersErr
       THEN AuditRun("Verify", FALSE, EmptyReport, "orders", NoTrace)
       ELSE IF TooFewShares(Cardinality(DOMAIN sharesToAudit), required)
       THEN AuditRun("Verify", TRUE, Report(<<>>, <<>>, offlineNodes, <<>>),
                     "NotEnoughShares", trace)
       ELSE IF audit.err # ""
       THEN AuditRun("Verify", TRUE, Report(<<>>, <<>>, offlineNodes, <<>>),
                     "Correct", trace)
       ELSE IF pending.err # ""
       THEN AuditRun("Verify", TRUE,
                     Report(successNodes, failedNodes, offlineNodes, <<>>),
                     pending.err, trace)
       ELSE AuditRun("Verify", TRUE,
                     Report(successNodes, failedNodes, offlineNodes, pending.audits),
                     "",
                     [trace EXCEPT !.corrected = TRUE,
                                   !.correctedShares = audit.corrected])

\* what Reverify can meet at a piece: the responses of a download, the
\* overlay reporting the node offline or the orders service failing when the
\* limit is made, the containment database failing on the lookup
ReverifyResponses == Responses \cup {"limitOffline", "limitErr", "dbErr"}

ReverifyResult(nodeID, status, pendingAudit) ==
    [nodeID |-> nodeID, status |-> status, pendingAudit |-> pendingAudit]

\* the result a Reverify task sends for a node that stays contained
ContainedResult(nodeID, pending) ==
    ReverifyResult(nodeID, "contained", NilPendingAudit)

\* the comparison of Reverify on a downloaded share
HashStatus(share, pending) ==
    IF SHA256Hash(share.data) = pending.expectedShareHash
    THEN "success" ELSE "failed"

\* a stripe of another segment, of which the nodes hold pieces too: piece i
\* of it is on node 4 - i
OtherStripe ==
    [pointer |-> RemotePointer(2, "m1", 2, Scheme(2, 2, 4, 4),
                               [j \in 1..4 |-> RemotePiece(j - 1, 5 - j)]),
     index |-> 0, data |-> <<1, 0>>]

\* the share a download under the limit of a pending audit reads: the limit
\* names the node and the piece of the pending audit, the download reads at
\* its stripe index, and the node holds there the share it was given of the
\* stripe the pending audit is of, the one under audit or another
HeldShare(stripe, pending) ==
    LET st == IF pending.pieceID = stripe.pointer.remote.root
                    /\ pending.stripeIndex = stripe.index
              THEN stripe ELSE OtherStripe
        pieces == st.pointer.remote.pieces
        j == CHOOSE j \in DOMAIN pieces : pieces[j].node = pending.nodeID
    IN EncodeSingle(st.data, pieces[j].num)

\* the result Reverify sends on its channel for one piece
ReverifyPiece(stripe, containment, piece, response) ==
    IF response = "dbErr"
    THEN ReverifyResult(piece.node, "erred", NilPendingAudit)
    ELSE IF piece.node \notin DOMAIN containment
    THEN ReverifyResult(piece.node, "skipped", NilPendingAudit)
    ELSE LET pending == containment[piece.node]
             share == GetShare(HeldShare(stripe, pending), piece.num, response)
         IN IF response = "limitOffline"
            THEN ReverifyResult(piece.node, "offline", NilPendingAudit)
            ELSE IF response = "limitErr"
            THEN ReverifyResult(piece.node, "erred", NilPendingAudit)
            ELSE IF ~share.err.nil
            THEN IF share.err.deadline \/ ~share.err.transport
                 THEN ContainedResult(piece.node, pending)
                 ELSE ReverifyResult(piece.node, "offline", NilPendingAudit)
            ELSE ReverifyResult(piece.node, HashStatus(share, pending), NilPendingAudit)

\* the orders in which the results of the pieces can arrive on the channel:
\* the result of a piece whose lookup of the pending audit found none or
\* failed is sent by the loop itself, so it is in the channel before the
\* task of any later piece is started; the tasks send in any order
Arrivals(stripe, containment, rresp) ==
    LET pieces == stripe.pointer.remote.pieces
        sentByLoop(j) ==
            rresp[j] = "dbErr" \/ pieces[j].node \notin DOMAIN containment
    IN {arrival \in Orders(DOMAIN pieces) :
          \A a, b \in DOMAIN arrival :
              (arrival[a] < arrival[b] /\ sentByLoop(arrival[a])) => a < b}

\* Verifier.Reverify: rresp[j] is what the run meets at piece j, arrival the
\* order in which the collecting loop receives the results of the pieces.
\* The nodes the run contacts are those whose task got its limit and went
\* on to GetShare, which dials the node: not those whose lookup found no
\* pending audit or failed, and not those whose limit was refused
Reverify(stripe, containment, rresp, arrival) ==
    LET pieces == stripe.pointer.remote.pieces
        results == [j \in DOMAIN pieces |->
                       ReverifyPiece(stripe, containment, pieces[j], rresp[j])]
        with(status) == {j \in DOMAIN pieces : results[j].status = status}
        received(status) == SelectSeq(arrival, LAMBDA j : results[j].status = status)
        nodeIDs(idx) == [i \in DOMAIN idx |-> results[idx[i]].nodeID]
        gotLimit(j) ==
            /\ rresp[j] # "dbErr"
            /\ pieces[j].node \in DOMAIN containment
            /\ rresp[j] \notin {"limitOffline", "limitErr"}
        trace == [limited |-> {pieces[j].node : j \in {i \in DOMAIN pieces : gotLimit(i)}},
                  contained |-> {pieces[j].node : j \in with("contained")},
                  offline |-> {pieces[j].node : j \in with("offline")},
                  audited |-> {pieces[j].node : j \in with("success") \cup with("failed")},
                  corrected |-> FALSE, correctedShares |-> {}]
    IN AuditRun("Reverify", TRUE,
                Report(nodeIDs(received("success")),
                       nodeIDs(received("failed")),
                       nodeIDs(received("offline")),
                       [i \in DOMAIN received("contained") |->
                            results[received("contained")[i]].pendingAudit]),
                IF with("erred") = {} THEN "" ELSE "erred",
                trace)

\* ------------------------------------------------------------------------
\* Segment repairer
\* ------------------------------------------------------------------------
NumSpare == 2
MaxRepairs == 2
AllNodes == 1..(NumNodes + NumSpare)

\* overlay.Cache.GetMissingPieces: the piece numbers of the pieces whose node
\* the overlay holds unreliable or offline
GetMissingPieces(pieces, badNodes) ==
    LET idx == {j \in DOMAIN pieces : pieces[j].node \in badNodes}
    IN [i \in 1..Cardinality(idx) |-> pieces[SetToSeq(idx)[i]].num]

\* the two threshold tests at the entry of Repair: "irreparable",
\* "unnecessary" or "" to go on
RepairGateInclusive(numHealthy, redundancy) ==
    IF numHealthy < redundancy.min THEN "irreparable"
    ELSE IF numHealthy >= redundancy.repair THEN "unnecessary"
    ELSE ""
RepairGate(numHealthy, redundancy) ==
    IF numHealthy < redundancy.min THEN "irreparable"
    ELSE IF numHealthy > redundancy.repair THEN "unnecessary"
    ELSE ""

\* createBucketID of the repairer: [err, id]
RepairBucketID(path) ==
    IF Len(path) < 3 THEN [err |-> "no bucket component in path", id |-> <<>>]
    ELSE [err |-> "", id |-> <<path[1], path[3]>>]

\* orders.Service.CreateGetRepairOrderLimits: a GET_REPAIR limit at the index
\* of every healthy piece
CreateGetRepairOrderLimits(pointer, healthyPieces) ==
    [i \in 1..pointer.remote.redundancy.total |->
        IF \E j \in DOMAIN healthyPieces : healthyPieces[j].num = i - 1
        THEN LET j == CHOOSE j \in DOMAIN healthyPieces : healthyPieces[j].num = i - 1
             IN OrderLimit(healthyPieces[j].node,
                           Derive(pointer.remote.root, healthyPieces[j].node),
                           "GET_REPAIR")
        ELSE NilLimit]

\* orders.Service.CreatePutRepairOrderLimits: the new nodes take, in order,
\* the indexes that have no GET_REPAIR limit
CreatePutRepairOrderLimits(pointer, getOrderLimits, newNodes) ==
    LET free == SetToSeq({i \in DOMAIN getOrderLimits : getOrderLimits[i].nil})
    IN [i \in DOMAIN getOrderLimits |->
          IF \E j \in 1..Len(newNodes) : j <= Len(free) /\ free[j] = i
          THEN LET j == CHOOSE j \in 1..Len(newNodes) : free[j] = i
               IN OrderLimit(newNodes[j], Derive(pointer.remote.root, newNodes[j]),
                             "PUT_REPAIR")
          ELSE NilLimit]

\* the pieces Repair appends for the uploads that succeeded: successfulNodes
\* is indexed like the PUT_REPAIR limits, okNums the piece numbers that
\* succeeded
NewPieces(putLimits, okNums) ==
    LET nums == SetToSeq({i - 1 : i \in {j \in DOMAIN putLimits :
                                            ~putLimits[j].nil /\ (j - 1) \in okNums}})
    IN [i \in 1..Len(nums) |-> RemotePiece(nums[i], putLimits[nums[i] + 1].node)]

\* the pointer Repair stores: the pointer it read with the new piece list
RepairedPointerRebuilt(pointer, allPieces) ==
    RemotePointer(pointer.size, pointer.meta, pointer.remote.root + 1,
                  pointer.remote.redundancy, allPieces)
RepairedPointer(pointer, allPieces) ==
    [pointer EXCEPT !.remote.pieces = allPieces]

\* the meter Repair marks for the rewritten pointer
RepairMeterStrict(length, redundancy) ==
    IF length < redundancy.repair THEN "repair_failed"
    ELSE IF length < redundancy.optimal THEN "repair_partial"
    ELSE "repair_success"
RepairMeter(length, redundancy) ==
    IF length <= redundancy.repair THEN "repair_failed"
    ELSE IF length < redundancy.optimal THEN "repair_partial"
    ELSE "repair_success"

RepairRun(path, err, db, marked, healthy, healthyPieces, newPieces, stored, cancelled) ==
    [called |-> TRUE, path |-> path, err |-> err, db |-> db, marked |-> marked,
     healthy |-> healthy, healthyPieces |-> healthyPieces,
     newPieces |-> newPieces, stored |-> stored, cancelled |-> cancelled]

\* ecclient.Repair: [err, okNums, cancelled]. The uploads to the PUT_REPAIR
\* limits run until they end or the timeout expires; okNums are the piece
\* numbers whose upload succeeded; on expiry the uploads still outstanding
\* are cancelled and the call fails
UploadRepair(putLimits, okNums, fail) ==
    LET asked == {i - 1 : i \in {j \in DOMAIN putLimits : ~putLimits[j].nil}}
    IN IF fail = "upload" THEN [err |-> "upload", okNums |-> {}, cancelled |-> {}]
       ELSE IF fail = "timeout"
       THEN [err |-> "timeout", okNums |-> okNums \cap asked,
             cancelled |-> asked \ okNums]
       ELSE [err |-> "", okNums |-> okNums \cap asked, cancelled |-> {}]

\* the error check of Repair after the upload
RepairUploadErrDropped(upload) == ""
RepairUploadErr(upload) == upload.err

\* Repairer.Repair on the pointer database db.  in = [badNodes, found, okNums,
\* fail, now]: the nodes the overlay holds unreliable, the answer of
\* FindStorageNodes, the piece numbers whose upload succeeds, the call of
\* a collaborator that fails ("" for none), and the instant of the
\* metainfo.Put that stores the rewritten pointer
Repair(db, path, in) ==
    IF ~DbHas(db, path) THEN RepairRun(path, "not found", db, {}, 0, <<>>, <<>>, FALSE, {})
    ELSE LET pointer == db[path]
             redundancy == pointer.remote.redundancy
             pieces == pointer.remote.pieces
             missingPieces == GetMissingPieces(pieces, in.badNodes)
             numHealthy == Len(pieces) - Len(missingPieces)
             lostPiecesSet == Range(missingPieces)
             healthyPieces == SelectSeqP(pieces,
                                 {j \in DOMAIN pieces : pieces[j].num \notin lostPiecesSet})
             excludeNodeIDs == PieceNodes(pieces)
             bucketID == RepairBucketID(path)
             getOrderLimits == CreateGetRepairOrderLimits(pointer, healthyPieces)
             putLimits == CreatePutRepairOrderLimits(pointer, getOrderLimits,
                                                     in.found.nodes)
             upload == UploadRepair(putLimits, in.okNums, in.fail)
             newPieces == NewPieces(putLimits, upload.okNums)
             allPieces == healthyPieces \o newPieces
             newPointer == RepairedPointer(pointer, allPieces)
             attempts == {"repair_attempts"}
             meter == RepairMeter(Len(allPieces), redundancy)
             stop(err, marked) ==
                 RepairRun(path, err, db, marked, numHealthy, healthyPieces, <<>>,
                           FALSE, {})
         IN IF pointer.type # "REMOTE"
            THEN RepairRun(path, "cannot repair inline segment", db, {}, 0, <<>>, <<>>, FALSE, {})
            ELSE IF NewRedundancyStrategyFromProto(redundancy) # ""
            THEN RepairRun(path, NewRedundancyStrategyFromProto(redundancy), db,
                           attempts, 0, <<>>, <<>>, FALSE, {})
            ELSE IF in.fail = "missing" THEN stop("error getting missing pieces", attempts)
            ELSE IF RepairGate(numHealthy, redundancy) = "irreparable"
            THEN stop("irreparable", attempts \cup {"repair_nodes_unavailable"})
            ELSE IF RepairGate(numHealthy, redundancy) = "unnecessary"
            THEN stop("unnecessary", attempts \cup {"repair_unnecessary"})
            ELSE IF bucketID.err # "" THEN stop(bucketID.err, attempts)
            ELSE IF in.fail = "getlimits" THEN stop("orders", attempts)
            ELSE IF in.found.err # "" THEN stop(in.found.err, attempts)
            ELSE IF in.fail = "putlimits" THEN stop("orders", attempts)
            ELSE IF in.fail = "download" THEN stop("download", attempts)
            ELSE IF RepairUploadErr(upload) # ""
            THEN RepairRun(path, RepairUploadErr(upload), db, attempts, numHealthy,
                           healthyPieces, <<>>, FALSE, upload.cancelled)
            ELSE IF in.fail = "put"
            THEN RepairRun(path, "put", db, attempts \cup {meter}, numHealthy,
                           healthyPieces, newPieces, FALSE, {})
            ELSE RepairRun(path, IF in.fail = "close" THEN "close" ELSE "",
                           DbPut(db, path, Stamped(newPointer, in.now)),
                           attempts \cup {meter},
                           numHealthy, healthyPieces, newPieces, TRUE, {})

\* ------------------------------------------------------------------------
\* State
\* ------------------------------------------------------------------------
VARIABLES
    pointerdb,      \* the pointer database: stored path -> pointer
    nodeUp,         \* storage node -> is it running
    pieceStore,     \* pieces held by the storage nodes: [node, id, num, data]
    rs,             \* the redundancy scheme the segment store is built with
    putDone,        \* the client has called Put
    written,        \* <<>> or <<what the successful Put wrote>>
    crashedSince,   \* the nodes that crashed after the successful Put
    getRes,         \* the result of the last Get
    delRes,         \* the result of the last Delete
    metaRes,        \* the result of the last Meta
    deleted         \* the paths deleted with success since the Put

VARIABLES
    stripe,         \* the stripe under audit: [pointer, index, data]
    containment,    \* the containment database: node -> its pending audit
    auditIn,        \* the inputs of the last Verify or Reverify
    auditRun        \* what the last Verify or Reverify returned

VARIABLES
    repairIn,       \* the inputs of the last Repair
    repairBefore,   \* the pointer database the last Repair started from
    repairRun,      \* what the last Repair returned and did
    repairs         \* the number of Repair calls made

VARIABLES
    rpcIn,          \* the last metainfo RPC: its name, request and inputs
    rpcBefore,      \* the pointer database the last RPC started from
    rpcOut,         \* what the last RPC returned
    rpcRun,         \* where the RPC being served stands between its calls
    rpcs            \* the number of metainfo RPCs made

VARIABLES
    calc            \* the last call of a pure function: [fn, in, out]

VARIABLES
    proc            \* the operation whose steps are followed one by one: its
                    \* kind, the position of each of its tasks, its channels

clientVars == <<nodeUp, pieceStore, rs, putDone, written, crashedSince, getRes,
                delRes, metaRes, deleted>>
auditVars == <<stripe, containment, auditIn, auditRun>>
repairVars == <<repairIn, repairBefore, repairRun, repairs>>
rpcVars == <<rpcIn, rpcBefore, rpcOut, rpcRun, rpcs>>
vars == <<pointerdb, clientVars, auditVars, repairVars, rpcVars, calc, proc>>

\* what each component leaves alone
notStore == <<auditVars, repairVars, rpcVars, calc, proc>>
notAudit == <<pointerdb, clientVars, repairVars, rpcVars, calc, proc>>
notRepair == <<clientVars, auditVars, rpcVars, calc, proc>>
notRpc == <<clientVars, auditVars, repairVars, calc, proc>>
notCalc == <<pointerdb, clientVars, auditVars, repairVars, rpcVars, proc>>
notProc == <<clientVars, auditVars, repairVars, rpcVars, calc>>

StorePaths == {<<"l", "bucket", "p">>, <<"s0", "bucket", "p">>}

NoGet == [called |-> FALSE, path |-> <<>>, err |-> "", data |-> <<>>, meta |-> ""]
GetResult(path, err, data, meta) ==
    [called |-> TRUE, path |-> path, err |-> err, data |-> data, meta |-> meta]

NoOp == [called |-> FALSE, path |-> <<>>, err |-> "", meta |-> ""]
OpResult(path, err, meta) ==
    [called |-> TRUE, path |-> path, err |-> err, meta |-> meta]

\* the Meta the segment store reports for a pointer
NoMeta == [size |-> 0, data |-> "", expiration |-> NoTime, modified |-> NoTime]
MetaOf(pointer) ==
    [size |-> pointer.size, data |-> pointer.meta,
     expiration |-> pointer.expiration, modified |-> pointer.modified]

NoMetaRes == [called |-> FALSE, path |-> <<>>, err |-> "", meta |-> NoMeta]
MetaResult(path, err, meta) ==
    [called |-> TRUE, path |-> path, err |-> err, meta |-> meta]

\* the expiration times given to Put
Expirations == {3}

StoreKey(path) ==
    [key |-> FullKey, now |-> 1, bucket |-> StoreBucket(path),
     path |-> StoreRest(path),
     segment |-> StoreSegmentIndex(path)]

\* overlay.Cache.FindStorageNodes for an upload: any count of the known nodes
FoundNodes(count) ==
    {[err |-> "", nodes |-> SetToSeq(S)] : S \in KSubsets(Nodes, count)}
        \cup {[err |-> "NotEnoughNodes", nodes |-> <<>>]}

\* the pieces a Put of data leaves on the nodes: piece i goes to the node of
\* limit i, and is kept where the upload succeeded
UploadedPieces(data, scheme, limits, okNums) ==
    {[node |-> limits[i + 1].node, id |-> limits[i + 1].pieceId, num |-> i,
      data |-> PieceData(data, scheme.min, i)] : i \in okNums}

\* ------------------------------------------------------------------------
\* Segment store: Put, Get
\* ------------------------------------------------------------------------
\* Store.Put with an inline segment: one CommitSegment of an INLINE pointer
PutInline(path, data, meta, expiration) ==
    LET pointer == [InlinePointer(data, meta) EXCEPT !.expiration = expiration]
        res == CommitSegment(pointerdb,
                   [StoreKey(path) EXCEPT !.now = @ + 1] @@
                   [pointer |-> pointer, limits |-> <<>>])
    IN /\ Len(data) <= MaxInlineSize
       /\ pointerdb' = res.db
       /\ written' = IF res.status = "OK"
                     THEN <<[path |-> path, data |-> data, meta |-> meta,
                             expiration |-> expiration,
                             before |-> StoreKey(path).now,
                             ret |-> MetaOf(res.pointer),
                             remote |-> FALSE, selected |-> {}, holders |-> {}]>>
                     ELSE <<>>
       /\ UNCHANGED pieceStore

\* Store.Put with a remote segment: CreateSegment, upload of the pieces
\* (upOK: the piece numbers whose upload is not cut short), CommitSegment of
\* the pieces that succeeded when at least the success threshold did
PutRemote(path, data, meta, expiration, found, upOK) ==
    LET cs == CreateSegment(StoreKey(path) @@ [redundancy |-> rs], found, 1, FALSE)
        okNums == {i \in 0..(Len(cs.limits) - 1) :
                      i \in upOK /\ nodeUp[cs.limits[i + 1].node]}
        pieces == [j \in 1..Cardinality(okNums) |->
                      RemotePiece(SetToSeq(okNums)[j],
                                  cs.limits[SetToSeq(okNums)[j] + 1].node)]
        pointer == [RemotePointer(Len(data), meta, cs.root, rs, pieces)
                        EXCEPT !.expiration = expiration]
        res == CommitSegment(pointerdb,
                   [StoreKey(path) EXCEPT !.now = @ + 1] @@
                   [pointer |-> pointer, limits |-> cs.limits])
    IN /\ Len(data) > MaxInlineSize
       /\ IF cs.status # "OK"
          THEN UNCHANGED <<pointerdb, pieceStore, written>>
          ELSE /\ pieceStore' = pieceStore \cup UploadedPieces(data, rs, cs.limits, okNums)
               /\ IF Cardinality(okNums) < rs.optimal
                  THEN UNCHANGED <<pointerdb, written>>
                  ELSE /\ pointerdb' = res.db
                       /\ written' = IF res.status = "OK"
                                     THEN <<[path |-> path, data |-> data, meta |-> meta,
                                             expiration |-> expiration,
                                             before |-> StoreKey(path).now,
                                             ret |-> MetaOf(res.pointer),
                                             remote |-> TRUE,
                                             selected |-> Range(found.nodes),
                                             holders |-> PieceNodes(pieces)]>>
                                     ELSE <<>>

Put ==
    /\ ~putDone
    /\ \E path \in StorePaths, meta \in Metas, expiration \in Expirations,
          data \in SeqsUpTo(ByteVals, MaxEncryptedSegmentSize) :
            \/ PutInline(path, data, meta, expiration)
            \/ \E found \in FoundNodes(rs.total), upOK \in SUBSET (0..(rs.total - 1)) :
                    PutRemote(path, data, meta, expiration, found, upOK)
    /\ putDone' = TRUE
    /\ crashedSince' = {}
    /\ getRes' = NoGet
    /\ delRes' = NoOp
    /\ metaRes' = NoMetaRes
    /\ deleted' = {}
    /\ UNCHANGED <<nodeUp, rs>>
    /\ UNCHANGED notStore

\* a storage node stops for good
Crash ==
    \E n \in Nodes :
        /\ nodeUp[n]
        /\ nodeUp' = [nodeUp EXCEPT ![n] = FALSE]
        /\ crashedSince' = IF written # <<>> THEN crashedSince \cup {n} ELSE crashedSince
        /\ getRes' = NoGet
        /\ delRes' = NoOp
        /\ metaRes' = NoMetaRes
        /\ UNCHANGED <<pointerdb, pieceStore, rs, putDone, written, deleted>>
        /\ UNCHANGED notStore

\* the pieces of the pointer a download can fetch: a limit was issued, the
\* node is up and holds the piece
Reachable(pointer, limits) ==
    {h \in pieceStore :
        \E i \in DOMAIN limits :
            /\ ~limits[i].nil
            /\ limits[i].node = h.node /\ limits[i].pieceId = h.id
            /\ h.num = i - 1
            /\ nodeUp[h.node]}

\* Store.Get and the read of the full range: the inline bytes, or the stripes
\* decoded from any k pieces that can be fetched, cut to the segment size
Get ==
    \E path \in StorePaths :
        LET dl == DownloadSegment(pointerdb, StoreKey(path), Nodes, FALSE)
            pointer == dl.pointer
            k == pointer.remote.redundancy.min
            avail == Reachable(pointer, dl.limits)
        IN /\ IF dl.status = "NotFound"
              THEN getRes' = GetResult(path, "KeyNotFound", <<>>, "")
              ELSE IF dl.status # "OK"
              THEN getRes' = GetResult(path, dl.status, <<>>, "")
              ELSE IF pointer.type = "INLINE"
              THEN getRes' = GetResult(path, "", pointer.inline, pointer.meta)
              ELSE IF Cardinality(avail) < k
              THEN getRes' = GetResult(path, "NotEnoughShares", <<>>, pointer.meta)
              ELSE \E held \in KSubsets(avail, k) :
                      getRes' = GetResult(path, "",
                          SubSeq(DecodeStripes(held, k, NumStripes(pointer.size, k)),
                                 1, pointer.size),
                          pointer.meta)
           /\ delRes' = NoOp
           /\ metaRes' = NoMetaRes
           /\ UNCHANGED <<pointerdb, nodeUp, pieceStore, rs, putDone, written,
                          crashedSince, deleted>>
           /\ UNCHANGED notStore

\* ecclient.Delete: every node that is up drops the piece its limit names;
\* a node that cannot be reached keeps it and the failure is not passed on
DeletePieces(pieces, limits, up) ==
    {h \in pieces :
        ~(up[h.node] /\ \E i \in DOMAIN limits :
                            limits[i].node = h.node /\ limits[i].pieceId = h.id)}

\* Store.Delete: one DeleteSegment, then the pieces named by the limits it
\* returns; fail is the satellite-side dependency that errors, if any
Delete ==
    \E path \in StorePaths, fail \in {"", "containment", "limits"} :
        LET del == DeleteSegment(pointerdb, StoreKey(path), fail)
        IN /\ pointerdb' = del.db
           /\ delRes' = OpResult(path,
                            IF del.status = "NotFound" THEN "KeyNotFound"
                            ELSE IF del.status # "OK" THEN del.status
                            ELSE "", "")
           /\ pieceStore' = IF del.status = "OK"
                            THEN DeletePieces(pieceStore, del.limits, nodeUp)
                            ELSE pieceStore
           /\ deleted' = IF del.status = "OK" THEN deleted \cup {path}
                         ELSE deleted
           /\ getRes' = NoGet
           /\ metaRes' = NoMetaRes
           /\ UNCHANGED <<nodeUp, rs, putDone, written, crashedSince>>
           /\ UNCHANGED notStore

\* Store.Meta: one SegmentInfo
Meta ==
    \E path \in StorePaths :
        LET info == SegmentInfo(pointerdb, StoreKey(path))
        IN /\ metaRes' = MetaResult(path,
                             IF info.status = "NotFound" THEN "KeyNotFound"
                             ELSE IF info.status # "OK" THEN info.status
                             ELSE "",
                             IF info.status = "OK" THEN MetaOf(info.pointer)
                             ELSE NoMeta)
           /\ getRes' = NoGet
           /\ delRes' = NoOp
           /\ UNCHANGED <<pointerdb, nodeUp, pieceStore, rs, putDone, written,
                          crashedSince, deleted>>
           /\ UNCHANGED notStore

IdleClient ==
    /\ nodeUp = [n \in Nodes |-> TRUE]
    /\ pieceStore = {}
    /\ rs = Scheme(2, 4, 4, 4)
    /\ putDone = FALSE
    /\ written = <<>>
    /\ crashedSince = {}
    /\ getRes = NoGet
    /\ delRes = NoOp
    /\ metaRes = NoMetaRes
    /\ deleted = {}

IdleAudit ==
    /\ stripe = [pointer |-> NoPointer, index |-> 0, data |-> <<>>]
    /\ containment = <<>>
    /\ auditIn = [skip |-> {}, online |-> {}, resp |-> <<>>, runs |-> 0, seen |-> <<>>]
    /\ auditRun = [op |-> ""]

IdleRepair ==
    /\ repairIn = [fail |-> ""]
    /\ repairBefore = EmptyDb
    /\ repairRun = [called |-> FALSE]
    /\ repairs = 0

IdleRpc ==
    /\ rpcIn = [rpc |-> ""]
    /\ rpcBefore = EmptyDb
    /\ rpcOut = [called |-> FALSE]
    /\ rpcRun = NoRpcRun
    /\ rpcs = 0

IdleCalc == calc = [fn |-> "", in |-> <<>>, out |-> <<>>]
IdleProc == proc = [kind |-> ""]

InitStore ==
    /\ IdleAudit /\ IdleRepair /\ IdleRpc /\ IdleCalc /\ IdleProc
    /\ pointerdb = EmptyDb
    /\ nodeUp = [n \in Nodes |-> TRUE]
    /\ pieceStore = {}
    /\ rs \in Schemes
    /\ putDone = FALSE
    /\ written = <<>>
    /\ crashedSince = {}
    /\ getRes = NoGet
    /\ delRes = NoOp
    /\ metaRes = NoMetaRes
    /\ deleted = {}

NextStore == Put \/ Crash \/ Get

SpecStore == InitStore /\ [][NextStore]_vars

\* the segment store with Delete and Meta, started with every node up or
\* with one node down
InitDelete ==
    /\ IdleAudit /\ IdleRepair /\ IdleRpc /\ IdleCalc /\ IdleProc
    /\ pointerdb = EmptyDb
    /\ nodeUp \in {[n \in Nodes |-> TRUE], [n \in Nodes |-> n # 1]}
    /\ pieceStore = {}
    /\ rs \in Schemes
    /\ putDone = FALSE
    /\ written = <<>>
    /\ crashedSince = {}
    /\ getRes = NoGet
    /\ delRes = NoOp
    /\ metaRes = NoMetaRes
    /\ deleted = {}

NextDelete == Put \/ Get \/ Delete \/ Meta

SpecDelete == InitDelete /\ [][NextDelete]_vars

\* ------------------------------------------------------------------------
\* Audit verifier: state and calls
\* ------------------------------------------------------------------------
AuditScheme == Scheme(2, 2, 4, 4)

\* the pieces of the audited pointer: piece i on node i + 1, all of them or
\* all but piece 2
AuditPieces ==
    {[j \in 1..4 |-> RemotePiece(j - 1, j)],
     <<RemotePiece(0, 1), RemotePiece(1, 2), RemotePiece(3, 4)>>}

Stripes ==
    {[pointer |-> RemotePointer(AuditScheme.min, "m1", 1, AuditScheme, pieces),
      index |-> 0, data |-> data] :
        pieces \in AuditPieces, data \in [1..AuditScheme.min -> ByteVals]}

\* the pending audit an earlier audit of the stripe recorded for a contained
\* node: the hash of the share the node should hold
PendingFor(st, piece) ==
    PendingAudit(piece.node, st.pointer.remote.root, st.index,
                 st.pointer.remote.redundancy.shareSize,
                 SHA256Hash(EncodeSingle(st.data, piece.num)))

\* the containment databases: the nodes of the first two pieces contained
\* or not, each by an audit of the stripe, the first one also by an audit
\* of the other segment
Containments(st) ==
    LET pieces == st.pointer.remote.pieces
        own(J) == [n \in {pieces[j].node : j \in J} |->
                      PendingFor(st, pieces[CHOOSE j \in J : pieces[j].node = n])]
        others == OtherStripe.pointer.remote.pieces
        other(n) == PendingFor(OtherStripe,
                               others[CHOOSE j \in DOMAIN others : others[j].node = n])
    IN {own(J) : J \in SUBSET {1, 2}}
          \cup {[own(J) EXCEPT ![pieces[1].node] = other(pieces[1].node)] :
                    J \in {{1}, {1, 2}}}

NoAuditIn ==
    [skip |-> {}, online |-> {}, resp |-> <<>>, runs |-> 0, seen |-> <<>>,
     first |-> EmptyReport]
NoAuditRun == AuditRun("", FALSE, EmptyReport, "", NoTrace)

Holders(st) == PieceNodes(st.pointer.remote.pieces)

\* the responses of the pieces that can be asked for, "good" standing for
\* the pieces that are not
ResponsesOf(st, asked, choices) ==
    {r \in [0..(st.pointer.remote.redundancy.total - 1) -> choices] :
        \A num \in DOMAIN r :
            (~\E j \in DOMAIN st.pointer.remote.pieces :
                /\ st.pointer.remote.pieces[j].num = num
                /\ st.pointer.remote.pieces[j].node \in asked) => r[num] = "good"}

\* the orders in which a run of Verify can meet the entries of its maps:
\* the orders of the piece numbers it has a limit for
Iterations(st, skip, online) ==
    LET limits == CreateAuditOrderLimits(st.pointer, skip, online)
    IN Orders({i - 1 : i \in {j \in DOMAIN limits : ~limits[j].nil}})

\* Verify reads the stripe it is given, asks for limits and downloads; it
\* has no statement that writes the stripe, the containment database or the
\* pointer database
VerifyCall ==
    /\ auditRun = NoAuditRun
    /\ auditIn = NoAuditIn
    /\ \E skip \in SUBSET Holders(stripe) :
      \E online \in {S \in SUBSET Nodes : skip \subseteq S /\ Nodes \ Holders(stripe) \subseteq S} :
        \E resp \in ResponsesOf(stripe, online \ skip, Responses) :
          \E ordersErr \in IF /\ skip = {} /\ online = Nodes
                               /\ \A num \in DOMAIN resp : resp[num] = "good"
                            THEN BOOLEAN ELSE {FALSE},
             iteration \in Iterations(stripe, skip, online) :
            /\ auditIn' = [skip |-> skip, online |-> online, resp |-> resp, runs |-> 1,
                            seen |-> <<>>, first |-> EmptyReport]
            /\ auditRun' = Verify(stripe, skip, online, ordersErr, resp, iteration)
            /\ UNCHANGED <<stripe, containment>>
            /\ UNCHANGED notAudit

\* a second Verify of the same stripe with the skip set, the overlay and the
\* responses of the first, meeting the entries of its maps in an order of
\* its own; first keeps the report of the first run
VerifyAgain ==
    /\ auditRun.op = "Verify"
    /\ auditIn.runs = 1
    /\ \E iteration \in Iterations(stripe, auditIn.skip, auditIn.online) :
          auditRun' = Verify(stripe, auditIn.skip, auditIn.online,
                             auditRun.err = "orders", auditIn.resp, iteration)
    /\ auditIn' = [auditIn EXCEPT !.runs = 2, !.first = auditRun.report]
    /\ UNCHANGED <<stripe, containment>>
    /\ UNCHANGED notAudit

\* Reverify starts on the pieces of the stripe; resp gathers what the node
\* of each piece answers, seen the pending audits read so far
ReverifyCall ==
    /\ auditRun = NoAuditRun
    /\ auditIn = NoAuditIn
    /\ auditIn' = [skip |-> {}, online |-> Nodes, resp |-> <<>>, runs |-> 1,
                   seen |-> <<>>, first |-> EmptyReport]
    /\ UNCHANGED <<stripe, containment, auditRun>>
    /\ UNCHANGED notAudit

\* Reverify is at work: it has started and has not returned
Reverifying == auditRun = NoAuditRun /\ auditIn # NoAuditIn

\* one turn of the loop over the pieces: containment.Get of the node of the
\* piece, and for a contained node the download that is started for it
ReverifyGet ==
    /\ Reverifying
    /\ Len(auditIn.resp) < Len(stripe.pointer.remote.pieces)
    /\ LET node == stripe.pointer.remote.pieces[Len(auditIn.resp) + 1].node
       IN \E response \in IF node \in DOMAIN containment THEN ReverifyResponses
                          ELSE {"good", "dbErr"} :
             auditIn' = [auditIn EXCEPT
                            !.resp = Append(@, response),
                            !.seen = IF node \in DOMAIN containment
                                     THEN (node :> containment[node]) @@ @
                                     ELSE @]
    /\ UNCHANGED <<stripe, containment, auditRun>>
    /\ UNCHANGED notAudit

\* the results of all the pieces are collected and the report is returned
ReverifyCollect ==
    /\ Reverifying
    /\ Len(auditIn.resp) = Len(stripe.pointer.remote.pieces)
    /\ \E arrival \in Arrivals(stripe, auditIn.seen, auditIn.resp) :
          auditRun' = Reverify(stripe, auditIn.seen, auditIn.resp, arrival)
    /\ UNCHANGED <<stripe, containment, auditIn>>
    /\ UNCHANGED notAudit

InitAudit ==
    /\ IdleClient /\ IdleRepair /\ IdleRpc /\ IdleCalc /\ IdleProc
    /\ pointerdb = EmptyDb
    /\ stripe \in Stripes
    /\ containment \in Containments(stripe)
    /\ auditIn = NoAuditIn
    /\ auditRun = NoAuditRun

\* the caller has taken the report; the verifier is idle again
AuditReturn ==
    /\ auditRun # NoAuditRun
    /\ auditIn' = NoAuditIn
    /\ auditRun' = NoAuditRun
    /\ UNCHANGED <<stripe, containment>>
    /\ UNCHANGED notAudit

NextAudit ==
    \/ VerifyCall
    \/ ReverifyCall
    \/ ReverifyGet
    \/ ReverifyCollect
    \/ AuditReturn

SpecAudit == InitAudit /\ [][NextAudit]_vars

\* Verify run twice on the same stripe and inputs, with a containment
\* database that holds pending audits of the stripe for two of its nodes
InitVerify ==
    /\ IdleClient /\ IdleRepair /\ IdleRpc /\ IdleCalc /\ IdleProc
    /\ pointerdb = EmptyDb
    /\ stripe \in Stripes
    /\ containment \in {c \in Containments(stripe) :
                            /\ Cardinality(DOMAIN c) = 2
                            /\ \A n \in DOMAIN c :
                                  c[n].pieceID = stripe.pointer.remote.root}
    /\ auditIn = NoAuditIn
    /\ auditRun = NoAuditRun

NextVerify ==
    \/ VerifyCall
    \/ VerifyAgain
    \/ AuditReturn

SpecVerify == InitVerify /\ [][NextVerify]_vars

\* ------------------------------------------------------------------------
\* Segment repairer: state and calls
\* ------------------------------------------------------------------------
RepairPaths == {<<ProjectID, "l", "bucket", "p">>, <<ProjectID, "l">>}

\* the pointers a commit can have left at a path, stored at the instant 1:
\* an inline segment, a remote one with piece i on node i + 1 for three or
\* four of the pieces, or one that lists a piece twice or has a repair
\* threshold above the optimal one, which CommitSegment does not refuse
CommittedPointers ==
    {Stamped(pointer, 1) : pointer \in
        {InlinePointer(<<0>>, "m1")}
            \cup {RemotePointer(2, "m1", 1, sch,
                      [j \in 1..Cardinality(S) |->
                          RemotePiece(SetToSeq(S)[j], SetToSeq(S)[j] + 1)]) :
                    sch \in Schemes,
                    S \in {T \in SUBSET (0..3) : Cardinality(T) >= 3}}
            \cup {RemotePointer(2, "m1", 1, Scheme(2, 2, 4, 4),
                      <<RemotePiece(0, 1), RemotePiece(1, 2), RemotePiece(0, 1)>>),
                  RemotePointer(2, "m1", 1, Scheme(2, 3, 2, 4),
                      [j \in 1..4 |-> RemotePiece(j - 1, j)])}}

RepairFails == {"", "missing", "getlimits", "putlimits", "download", "upload",
                "timeout", "put", "close"}

\* overlay.Cache.FindStorageNodes for a repair: count nodes, none of them
\* excluded (the lowest or the highest of those left), or an error
FoundNewNodes(count, excluded) ==
    LET free == SetToSeq(AllNodes \ excluded)
    IN (IF count <= Len(free)
        THEN {[err |-> "", nodes |-> SubSeq(free, 1, count)],
              [err |-> "", nodes |-> SubSeq(free, Len(free) - count + 1, Len(free))]}
        ELSE {})
        \cup {[err |-> "NotEnoughNodes", nodes |-> <<>>]}

NoRepairIn == [badNodes |-> {}, found |-> [err |-> "", nodes |-> <<>>],
               okNums |-> {}, fail |-> "", now |-> NoTime]
NoRepairRun ==
    [called |-> FALSE, path |-> <<>>, err |-> "", db |-> EmptyDb, marked |-> {},
     healthy |-> 0, healthyPieces |-> <<>>, newPieces |-> <<>>, stored |-> FALSE,
     cancelled |-> {}]

\* the number of nodes Repair asks the overlay for, and the nodes it excludes
RepairRequest(db, path, badNodes) ==
    IF DbHas(db, path) /\ db[path].type = "REMOTE"
    THEN LET pieces == db[path].remote.pieces
             lost == Range(GetMissingPieces(pieces, badNodes))
             healthy == Cardinality({j \in DOMAIN pieces : pieces[j].num \notin lost})
         IN [count |-> IF db[path].remote.redundancy.total - healthy < 0 THEN 0
                       ELSE db[path].remote.redundancy.total - healthy,
             excluded |-> PieceNodes(pieces)]
    ELSE [count |-> 0, excluded |-> {}]

\* Repair gets as far as asking the overlay for new nodes
AsksForNodes(db, path, badNodes, fail) ==
    /\ DbHas(db, path) /\ db[path].type = "REMOTE"
    /\ NewRedundancyStrategyFromProto(db[path].remote.redundancy) = ""
    /\ fail \notin {"missing", "getlimits"}
    /\ Len(path) >= 3
    /\ LET pieces == db[path].remote.pieces
       IN RepairGate(Len(pieces) - Len(GetMissingPieces(pieces, badNodes)),
                     db[path].remote.redundancy) = ""

\* the piece numbers Repair uploads to: those without a healthy piece
FreeNums(db, path, badNodes) ==
    {num \in 0..(db[path].remote.redundancy.total - 1) :
        ~\E j \in DOMAIN db[path].remote.pieces :
            /\ db[path].remote.pieces[j].num = num
            /\ db[path].remote.pieces[j].node \notin badNodes}

\* the inputs of a Repair of path at the instant now: what the
\* collaborators answer, as far as Repair gets to ask them
RepairInputs(db, path, now) ==
    LET holders == IF DbHas(db, path) THEN PieceNodes(db[path].remote.pieces) ELSE {}
    IN UNION {
        IF AsksForNodes(db, path, bad, "")
        THEN UNION {
               {[badNodes |-> bad, fail |-> f, found |-> found, okNums |-> ok,
                 now |-> now] :
                    f \in IF found.err = "" THEN {"", "timeout"} ELSE {""},
                    ok \in IF found.err = "" THEN SUBSET FreeNums(db, path, bad)
                           ELSE {{}}}
               \cup (IF found.err = ""
                     THEN {[badNodes |-> bad, fail |-> f, found |-> found, okNums |-> {},
                           now |-> now] :
                              f \in {"putlimits", "download", "upload"}}
                          \cup {[badNodes |-> bad, fail |-> f, found |-> found,
                                  okNums |-> FreeNums(db, path, bad),
                                  now |-> now] :
                                    f \in {"put", "close"}}
                     ELSE {}) :
               found \in FoundNewNodes(RepairRequest(db, path, bad).count,
                                       RepairRequest(db, path, bad).excluded)}
             \cup {[badNodes |-> bad, fail |-> f, found |-> NoRepairIn.found,
                     okNums |-> {},
                    now |-> now] : f \in {"missing", "getlimits"}}
        ELSE {[badNodes |-> bad, fail |-> f, found |-> NoRepairIn.found,
               okNums |-> {},
               now |-> now] : f \in {"", "missing", "getlimits"}} :
        bad \in SUBSET holders}

\* Repair reads the pointer of the path (metainfo.Get) and goes on with what
\* it read; in holds what its collaborators answer from then on.  The
\* clock ticks once a call: the pointers were committed at the instant 1,
\* the Put of the n-th call is made at the instant 1 + n
RepairCall ==
    /\ repairs < MaxRepairs
    /\ repairRun = NoRepairRun
    /\ repairs' = repairs + 1
    /\ \E path \in RepairPaths :
      \E in \in RepairInputs(pointerdb, path, 2 + repairs) :
          /\ repairIn' = in
          /\ repairBefore' = pointerdb
          /\ repairRun' = [NoRepairRun EXCEPT !.path = path]
          /\ UNCHANGED pointerdb
          /\ UNCHANGED notRepair

\* Repair is at work: it has read the pointer and has not returned
Repairing == ~repairRun.called /\ repairRun.path # <<>>

\* Repair ends: with an error, or with metainfo.Put(path, pointer) of the
\* pointer it read, its pieces replaced
RepairStore ==
    /\ Repairing
    /\ LET run == Repair(repairBefore, repairRun.path, repairIn)
       IN /\ pointerdb' = IF run.stored
                          THEN DbPut(pointerdb, run.path, run.db[run.path])
                          ELSE pointerdb
          /\ repairRun' = [run EXCEPT !.db = pointerdb']
    /\ UNCHANGED <<repairIn, repairBefore, repairs>>
    /\ UNCHANGED notRepair

InitRepair ==
    /\ IdleClient /\ IdleAudit /\ IdleRpc /\ IdleCalc /\ IdleProc
    /\ \E path \in RepairPaths, pointer \in CommittedPointers :
            pointerdb \in {EmptyDb, DbPut(EmptyDb, path, pointer)}
    /\ repairIn = NoRepairIn
    /\ repairBefore = EmptyDb
    /\ repairRun = NoRepairRun
    /\ repairs = 0

\* the caller takes the result of the call
RepairReturn ==
    /\ repairRun.called
    /\ repairIn' = NoRepairIn
    /\ repairBefore' = EmptyDb
    /\ repairRun' = NoRepairRun
    /\ UNCHANGED <<pointerdb, repairs>>
    /\ UNCHANGED notRepair

NextRepair == RepairCall \/ RepairStore \/ RepairReturn

SpecRepair == InitRepair /\ [][NextRepair]_vars

\* ------------------------------------------------------------------------
\* Metainfo endpoint: state and calls
\* ------------------------------------------------------------------------
MaxRpcs == 1

\* the keys the requests carry: none, one that does not parse, one the
\* satellite does not know, an unrestricted one, and one per caveat
Caveats ==
    {Caveat({op}, {}, NoTime, NoTime) : op \in Ops}
        \cup {Caveat(Ops, {}, NoTime, NoTime),
              Caveat({"Write", "Delete"}, {}, NoTime, NoTime),
              Caveat({"Read", "List"}, {}, NoTime, NoTime)}
        \cup {Caveat({}, {AllowedPath(<<"otherbucket">>, <<>>)}, NoTime, NoTime),
              Caveat({}, {AllowedPath(<<"bucket">>, <<"q">>)}, NoTime, NoTime),
              Caveat({}, {AllowedPath(<<"bucket">>, <<"p">>)}, NoTime, NoTime)}
        \cup {Caveat({}, {}, 2, NoTime), Caveat({}, {}, NoTime, 2)}
NoKey == ApiKey(FALSE, FALSE, FALSE, {})
InvalidKey == ApiKey(TRUE, FALSE, FALSE, {})
UnknownKey == ApiKey(TRUE, TRUE, FALSE, {})
Keys == {NoKey, InvalidKey, UnknownKey, FullKey}
            \cup {Restricted(c) : c \in Caveats}

Buckets == {<<>>, <<"bucket">>, <<"b", "x">>}
SegmentIndexes == {-2, -1, 0}

\* the request fields every RPC reads; an RPC ignores the fields that are
\* not part of its message
Request(key, now, bucket, path, segment, pointer, limits, redundancy) ==
    [key |-> key, now |-> now, bucket |-> bucket, path |-> path,
     segment |-> segment, pointer |-> pointer, limits |-> limits,
     redundancy |-> redundancy]

RpcRoot == 1
RpcLimits == CreatePutOrderLimits(RpcRoot, [i \in 1..NumNodes |-> i])

RECURSIVE PiecesOf(_, _, _)
\* the pieces a client reports for the piece numbers nums uploaded under
\* limits: piece number i went to the node of limit i
PiecesOf(limits, nums, i) ==
    IF i > Len(limits) THEN <<>>
    ELSE (IF (i - 1) \in nums THEN <<RemotePiece(i - 1, limits[i].node)>>
          ELSE <<>>) \o PiecesOf(limits, nums, i + 1)

PieceSets == {{}, {0}, {0, 1}, {1, 3}, {0, 1, 2}, {0, 1, 2, 3}}

Defects == {"", "nil limit", "unsigned", "wrong piece id", "zero piece id",
            "wrong node", "duplicate", "out of range", "negative",
            "short limits", "no limits", "nil remote", "nil redundancy",
            "zero redundancy", "zero min"}

\* the commit request for pieces nums of a segment with the scheme, with one
\* defect put in at the first piece listed
DefectiveCommit(scheme, nums, defect) ==
    LET pieces == PiecesOf(RpcLimits, nums, 1)
        first == IF pieces = <<>> THEN 1 ELSE pieces[1].num + 1
        other == (RpcLimits[first].node % NumNodes) + 1
        limits ==
            CASE defect = "nil limit" ->
                    [RpcLimits EXCEPT ![first] = NilLimit]
              [] defect = "unsigned" ->
                    [RpcLimits EXCEPT ![first].signed = FALSE]
              [] defect = "wrong piece id" ->
                    [RpcLimits EXCEPT ![first].pieceId =
                                          Derive(RpcRoot + 1, @[2])]
              [] defect = "zero piece id" ->
                    [RpcLimits EXCEPT ![first].pieceId = ZeroPieceID]
              [] defect = "wrong node" ->
                    [RpcLimits EXCEPT ![first].node = other]
              [] defect = "short limits" ->
                    SubSeq(RpcLimits, 1, Len(RpcLimits) - 1)
              [] defect = "no limits" -> <<>>
              [] OTHER -> RpcLimits
        listed ==
            CASE defect = "duplicate" /\ pieces # <<>> ->
                    Append(pieces, pieces[1])
              [] defect = "out of range" /\ pieces # <<>> ->
                    [pieces EXCEPT ![1].num = Len(RpcLimits)]
              [] defect = "negative" /\ pieces # <<>> ->
                    [pieces EXCEPT ![1].num = -1]
              [] OTHER -> pieces
        remote == RemotePointer(1, "m1", RpcRoot,
                                CASE defect = "nil redundancy" -> NilRedundancy
                                  [] defect = "zero redundancy" ->
                                        [Scheme(0, 0, 0, 0) EXCEPT !.shareSize = 0]
                                  [] defect = "zero min" -> [scheme EXCEPT !.min = 0]
                                  [] OTHER -> scheme,
                                listed)
        pointer == IF defect = "nil remote"
                   THEN [remote EXCEPT !.remote = NilRemote]
                   ELSE remote
    IN Request(FullKey, 1, <<"bucket">>, <<"p">>, 0, pointer, limits, scheme)

GoodInline == InlinePointer(<<1>>, "m1")
GoodRemote ==
    RemotePointer(1, "m1", RpcRoot, Scheme(2, 2, 4, 4),
                  PiecesOf(RpcLimits, {0, 1, 2, 3}, 1))

\* requests that differ in the key and the time of the call, for a bucket
\* that is in order and for one that is not
AuthRequests ==
    {Request(key, now, bucket, path, 0, GoodRemote, RpcLimits,
             Scheme(2, 2, 4, 4)) :
        key \in Keys, now \in Times, bucket \in {<<"bucket">>, <<>>},
        path \in {<<"p">>, <<"q">>}}

\* requests of an unrestricted key that differ in the bucket and the
\* segment index
PathRequests ==
    {Request(FullKey, 1, bucket, <<"p">>, segment, pointer, RpcLimits,
             Scheme(2, 2, 4, 4)) :
        bucket \in Buckets, segment \in SegmentIndexes,
        pointer \in {GoodInline, GoodRemote}}

\* a commit that names no pointer
NilCommit ==
    Request(FullKey, 1, <<"bucket">>, <<"p">>, -1, NoPointer, <<>>, NilRedundancy)

CommitRequests ==
    AuthRequests \cup PathRequests \cup {NilCommit}
        \cup {DefectiveCommit(scheme, nums, defect) :
                scheme \in Schemes, nums \in PieceSets, defect \in Defects}

CreateRequests ==
    AuthRequests \cup PathRequests
        \cup {Request(FullKey, 1, <<"bucket">>, <<"p">>, 0, GoodRemote, <<>>,
                      [scheme EXCEPT !.shareSize = size]) :
                scheme \in Schemes \cup {Scheme(2, 1, 4, 4)}, size \in {0, 1}}
        \cup {Request(FullKey, 1, <<"bucket">>, <<"p">>, 0, GoodRemote, <<>>,
                      NilRedundancy)}

\* the pointer databases the calls start from: empty, or holding what an
\* accepted CommitSegment stored
SeedCommits ==
    {Request(FullKey, 1, <<"bucket">>, <<"p">>, -1, GoodInline, <<>>,
             Scheme(2, 2, 4, 4)),
     Request(FullKey, 1, <<"bucket">>, <<"p">>, 0, GoodRemote, RpcLimits,
             Scheme(2, 2, 4, 4))}
SeedDbs ==
    {EmptyDb} \cup {CommitSegment(EmptyDb, r).db : r \in SeedCommits}
        \cup {CommitSegment(CommitSegment(EmptyDb, r).db, q).db :
                r \in SeedCommits, q \in SeedCommits}

NoRpcIn == [rpc |-> "", req |-> Request(NoKey, 1, <<>>, <<>>, 0, NoPointer,
                                        <<>>, NilRedundancy),
            fail |-> "", online |-> {}, exceeded |-> FALSE]
RpcIn(rpc, req, fail, online, exceeded) ==
    [rpc |-> rpc, req |-> req, fail |-> fail, online |-> online,
     exceeded |-> exceeded]
NoRpcOut == [called |-> FALSE, status |-> "", msg |-> "", pointer |-> NoPointer,
             limits |-> <<>>, items |-> <<>>, more |-> FALSE]
RpcOut(status, msg, pointer, limits, items, more) ==
    [called |-> TRUE, status |-> status, msg |-> msg, pointer |-> pointer,
     limits |-> limits, items |-> items, more |-> more]

\* an RPC arrives while no other one is being served
RpcStart(in) ==
    /\ rpcs < MaxRpcs
    /\ ~rpcOut.called
    /\ rpcRun = NoRpcRun
    /\ rpcs' = rpcs + 1
    /\ rpcIn' = in
    /\ rpcBefore' = pointerdb
    /\ UNCHANGED <<clientVars, stripe, auditIn, auditRun, repairVars, calc, proc>>

\* an RPC that answers after a single read of the pointer database
RpcAnswer(out) ==
    /\ rpcOut' = out
    /\ rpcRun' = NoRpcRun
    /\ UNCHANGED <<pointerdb, containment>>

\* the handler makes one call: its position, the two databases and, once it
\* has returned, its response
RpcStep(step) ==
    /\ rpcRun' = step.run
    /\ rpcOut' = IF step.status = "" THEN NoRpcOut
                 ELSE RpcOut(step.status, step.msg, step.pointer, step.limits,
                             <<>>, FALSE)
    /\ pointerdb' = step.db
    /\ containment' = step.containment

\* a handler that has started goes on
RpcGoesOn ==
    UNCHANGED <<rpcIn, rpcBefore, rpcs, clientVars, stripe, auditIn, auditRun,
                repairVars, calc, proc>>

\* the requests the usage limit of the project may be exceeded for
OverUsage(req) ==
    IF req.now = 1 /\ req.path = <<"p">> THEN BOOLEAN ELSE {FALSE}

\* what the services called after authorization answer: one of choices for
\* the requests that differ in the bucket and the segment index, the first
\* answer for the requests that differ in the key
Answers(req, first, choices) ==
    IF req \in AuthRequests THEN {first} ELSE choices

SegmentInfoCall ==
    \E req \in AuthRequests \cup PathRequests :
        LET res == SegmentInfo(pointerdb, req)
        IN /\ RpcStart(RpcIn("SegmentInfo", req, "", {}, FALSE))
           /\ RpcAnswer(RpcOut(res.status, "", res.pointer, <<>>, <<>>, FALSE))

CreateSegmentCall ==
    \E req \in CreateRequests :
      \E fail \in Answers(req, "", {"", "overlay"}), exceeded \in OverUsage(req) :
        LET found == IF fail = "" THEN [err |-> "", nodes |-> [i \in 1..NumNodes |-> i]]
                     ELSE [err |-> fail, nodes |-> <<>>]
            res == CreateSegment(req, found, RpcRoot, exceeded)
        IN /\ RpcStart(RpcIn("CreateSegment", req, fail, {}, exceeded))
           /\ RpcAnswer(RpcOut(res.status, "", NoPointer, res.limits, <<>>, FALSE))

\* the commits during which a service called after the Put may fail: an
\* inline and a remote one that pass every check
FailingCommits ==
    {r \in PathRequests : r.bucket = <<"bucket">> /\ r.segment = 0}

\* CommitSegment to its metainfo.Put; fail = "put" makes metainfo.Put fail,
\* "orders" UpdatePutInlineOrder, "get" the read of the stored pointer
CommitSegmentCall ==
    \E req \in CommitRequests :
      \E fail \in IF req \in FailingCommits THEN {"", "put", "orders", "get"}
                   ELSE {""} :
        /\ RpcStart(RpcIn("CommitSegment", req, fail, {}, FALSE))
        /\ RpcStep(CommitPut(req, fail, pointerdb, containment))

CommitSegmentOrder ==
    /\ rpcRun.pc = "order"
    /\ RpcStep(CommitOrder(rpcIn.fail, rpcRun, pointerdb, containment))
    /\ RpcGoesOn

CommitSegmentGet ==
    /\ rpcRun.pc = "get"
    /\ RpcStep(CommitGet(rpcIn.fail, rpcRun, pointerdb, containment))
    /\ RpcGoesOn

DownloadSegmentCall ==
    \E req \in AuthRequests \cup PathRequests :
      \E online \in Answers(req, Nodes, {Nodes, Nodes \ {1}}),
         exceeded \in OverUsage(req) :
        LET res == DownloadSegment(pointerdb, req, online, exceeded)
        IN /\ RpcStart(RpcIn("DownloadSegment", req, "", online, exceeded))
           /\ RpcAnswer(RpcOut(res.status, "", res.pointer, res.limits, <<>>, FALSE))

\* DeleteSegment to its metainfo.Get; fail = "delete" makes metainfo.Delete
\* fail, "identity" PeerIdentityFromContext, "containment" a
\* containment.Delete, "limits" CreateDeleteOrderLimits
DeleteSegmentCall ==
    \E req \in AuthRequests \cup PathRequests :
      \E fail \in Answers(req, "", {"", "delete", "identity", "containment",
                                    "limits"}) :
        /\ RpcStart(RpcIn("DeleteSegment", req, fail, {}, FALSE))
        /\ RpcStep(DeleteGet(req, pointerdb, containment))

DeleteSegmentDelete ==
    /\ rpcRun.pc = "delete"
    /\ \E missing \in IF DbHas(pointerdb, rpcRun.path) THEN {FALSE} ELSE BOOLEAN :
          RpcStep(DeleteDelete(rpcIn.fail, missing, rpcRun, pointerdb, containment))
    /\ RpcGoesOn

\* a failing containment database fails at any turn of the loop
DeleteSegmentContain ==
    /\ rpcRun.pc = "contain"
    /\ \E fail \in IF rpcIn.fail # "containment" THEN {""}
                   ELSE IF Len(rpcRun.left) = 1 THEN {"containment"}
                   ELSE {"", "containment"} :
          RpcStep(DeleteContain(fail, rpcRun, pointerdb, containment))
    /\ RpcGoesOn

DeleteSegmentLimits ==
    /\ rpcRun.pc = "limits"
    /\ RpcStep(DeleteLimits(rpcIn.fail, rpcRun, pointerdb, containment))
    /\ RpcGoesOn

\* what a ListSegments request asks for besides the prefix, its path
Listing(req, startAfter, recursive, limit) ==
    req @@ [startAfter |-> startAfter, recursive |-> recursive, limit |-> limit]

ListRequests ==
    {Listing(req, <<>>, TRUE, 0) : req \in AuthRequests \cup PathRequests}
        \cup {Listing(Request(FullKey, 1, bucket, <<>>, -1, NoPointer, <<>>,
                              NilRedundancy), startAfter, recursive, limit) :
                bucket \in Buckets,
                startAfter \in {<<>>, NameBytes["bucket"], NameBytes["p"]},
                recursive \in BOOLEAN, limit \in {0, 1}}

ListSegmentsCall ==
    \E req \in ListRequests :
        LET res == ListSegments(pointerdb, req)
        IN /\ RpcStart(RpcIn("ListSegments", req, "", {}, FALSE))
           /\ RpcAnswer(RpcOut(res.status, "", NoPointer, <<>>, res.items, res.more))

\* the caller takes the response; the next RPC may start
RpcReturn ==
    /\ rpcOut.called
    /\ rpcIn' = NoRpcIn
    /\ rpcBefore' = EmptyDb
    /\ rpcOut' = NoRpcOut
    /\ UNCHANGED <<pointerdb, rpcs, rpcRun>>
    /\ UNCHANGED notRpc

InitMeta ==
    /\ IdleClient /\ IdleAudit /\ IdleRepair
    /\ pointerdb \in SeedDbs
    /\ rpcIn = NoRpcIn
    /\ rpcBefore = EmptyDb
    /\ rpcOut = NoRpcOut
    /\ rpcRun = NoRpcRun
    /\ rpcs = 0
    /\ IdleCalc /\ IdleProc

NextMeta ==
    \/ SegmentInfoCall
    \/ CreateSegmentCall
    \/ CommitSegmentCall
    \/ CommitSegmentOrder
    \/ CommitSegmentGet
    \/ DownloadSegmentCall
    \/ DeleteSegmentCall
    \/ DeleteSegmentDelete
    \/ DeleteSegmentContain
    \/ DeleteSegmentLimits
    \/ ListSegmentsCall
    \/ RpcReturn

SpecMeta == InitMeta /\ [][NextMeta]_vars

\* ------------------------------------------------------------------------
\* A second handler at work at the same time
\* ------------------------------------------------------------------------
\* the endpoint serves every RPC on a goroutine of its own and holds no lock:
\* another CommitSegment or DeleteSegment makes its calls between those of
\* the operation that is followed. calls are the [rpc, req] it may be asked
\* for, one of which it serves; run is its position
Other(calls) ==
    [kind |-> "Rpc", calls |-> calls, rpc |-> "", run |-> NoRpcRun, status |-> ""]

OtherAt(step) ==
    /\ proc' = [proc EXCEPT !.run = step.run, !.status = step.status]
    /\ pointerdb' = step.db
    /\ containment' = step.containment
    /\ UNCHANGED <<clientVars, stripe, auditIn, auditRun, repairVars, rpcVars, calc>>

\* the other RPC arrives and runs to its first database call
OtherCall ==
    /\ proc.kind = "Rpc"
    /\ proc.run = NoRpcRun
    /\ \E call \in proc.calls :
          LET step == IF call.rpc = "CommitSegment"
                      THEN CommitPut(call.req, "", pointerdb, containment)
                      ELSE DeleteGet(call.req, pointerdb, containment)
          IN /\ proc' = [proc EXCEPT !.calls = {}, !.rpc = call.rpc,
                                     !.run = step.run, !.status = step.status]
             /\ pointerdb' = step.db
             /\ containment' = step.containment
    /\ UNCHANGED <<clientVars, stripe, auditIn, auditRun, repairVars, rpcVars, calc>>

\* the other RPC makes its next call
OtherStep ==
    /\ proc.kind = "Rpc"
    /\ proc.run # NoRpcRun
    /\ \E missing \in IF DbHas(pointerdb, proc.run.path) THEN {FALSE} ELSE BOOLEAN :
          OtherAt(HandlerStep("", missing, proc.run, pointerdb, containment))

\* Reverify of a stripe while a DeleteSegment of its segment is at work: the
\* delete takes the pending audits of the nodes away between the reads of
\* Reverify
AuditRacePath == <<ProjectID, "s0", "bucket", "p">>
AuditRaceCalls ==
    {[rpc |-> "DeleteSegment",
      req |-> Request(FullKey, 2, <<"bucket">>, <<"p">>, 0, NoPointer, <<>>,
                      NilRedundancy)]}

InitAuditRace ==
    /\ IdleClient /\ IdleRepair /\ IdleRpc /\ IdleCalc
    /\ stripe \in Stripes
    /\ pointerdb = DbPut(EmptyDb, AuditRacePath, stripe.pointer)
    /\ containment \in Containments(stripe)
    /\ auditIn = NoAuditIn
    /\ auditRun = NoAuditRun
    /\ proc = Other(AuditRaceCalls)

NextAuditRace ==
    \/ ReverifyCall
    \/ ReverifyGet
    \/ ReverifyCollect
    \/ AuditReturn
    \/ OtherCall
    \/ OtherStep

SpecAuditRace == InitAuditRace /\ [][NextAuditRace]_vars
\* ------------------------------------------------------------------------
\* Pure functions: calls on inputs drawn from bounded sets
\* ------------------------------------------------------------------------
MaxThreshold == 3

Calc(fn, in, out) == [fn |-> fn, in |-> in, out |-> out]

\* the schemes of TestCalcNeededNodes with the answers it expects
NeededTable ==
    {<<Scheme(0, 0, 0, 0), 0>>, <<Scheme(1, 1, 1, 1), 1>>,
     <<Scheme(1, 1, 2, 2), 2>>, <<Scheme(1, 2, 2, 2), 2>>,
     <<Scheme(2, 3, 4, 4), 3>>, <<Scheme(2, 4, 6, 8), 3>>,
     <<Scheme(20, 30, 40, 50), 25>>, <<Scheme(29, 35, 80, 95), 34>>}

SmallSchemes ==
    {Scheme(k, m, o, n) : k \in 0..MaxThreshold, m \in 0..MaxThreshold,
                          o \in 0..MaxThreshold, n \in 0..MaxThreshold}

CalcNeededNodesCall ==
    \E redundancy \in SmallSchemes \cup {row[1] : row \in NeededTable} :
        /\ calc.fn = ""
        /\ calc' = Calc("CalcNeededNodes", redundancy, CalcNeededNodes(redundancy))
        /\ UNCHANGED notCalc

\* ---- listing --------------------------------------------------------------

MaxKeys == 2

\* the names of TestSegmentStoreList, byte by byte
NameL == <<108>>
NameAAAA == <<65, 65, 65, 65>>
NameBBBB == <<66, 66, 66, 66>>
NameCCCC == <<67, 67, 67, 67>>
NameAfile1 == <<97, 102, 105, 108, 101, 49>>
NameBfile2 == <<98, 102, 105, 108, 101, 50>>
NameBfolder == <<98, 102, 111, 108, 100, 101, 114>>
NameFile1 == <<102, 105, 108, 101, 49>>

\* the five paths TestSegmentStoreList puts
TestKeys ==
    {JoinKey(<<NameL, NameAAAA, NameAfile1>>), JoinKey(<<NameL, NameAAAA, NameBfile2>>),
     JoinKey(<<NameL, NameBBBB, NameAfile1>>), JoinKey(<<NameL, NameBBBB, NameBfile2>>),
     JoinKey(<<NameL, NameBBBB, NameBfolder, NameFile1>>)}

\* further paths in the manner of TestServiceList: an object whose path is
\* also the prefix of others ("l/BBBB", "l"), and names that bytewise order
\* puts before the delimiter ("l.x") and after it ("m")
ListKeys ==
    TestKeys \cup {NameL, <<108, 46, 120>>, JoinKey(<<NameL, NameBBBB>>), <<109>>}

KeySets == {TestKeys} \cup {S \in SUBSET ListKeys : Cardinality(S) <= MaxKeys}

ListPrefixes ==
    {<<>>, NameL, Append(NameL, Delimiter), JoinKey(<<NameL, NameBBBB>>),
     JoinKey(<<NameL, NameCCCC>>)}

\* start-after cursors: none, or the path of an item of an earlier page
ListCursors ==
    {<<>>, NameAfile1, Append(NameBfolder, Delimiter), Append(NameBBBB, Delimiter), NameL}

ListLimits == {0, 1, 2, 10}

ListInput(keys, prefix, startAfter, recursive, limit) ==
    [keys |-> keys, prefix |-> prefix, startAfter |-> startAfter,
     recursive |-> recursive, limit |-> limit]

ListCall ==
    /\ calc.fn = ""
    /\ \E keys \in KeySets, prefix \in ListPrefixes, startAfter \in ListCursors,
          recursive \in BOOLEAN, limit \in ListLimits :
          calc' = Calc("List", ListInput(keys, prefix, startAfter, recursive, limit),
                       List(keys, prefix, startAfter, recursive, limit))
    /\ UNCHANGED notCalc

\* ---- segment paths and bucket IDs ------------------------------------------
\* createBucketID of the audit verifier with the segment component taken
\* for the bucket
AuditBucketIDOfSegment(path) ==
    IF Len(path) < 3 THEN <<>> ELSE <<path[1], path[2]>>

\* createBucketID of the audit verifier: nil for a path of fewer than three
\* components, else the first and the third
AuditBucketID(path) ==
    IF Len(path) < 3 THEN <<>> ELSE <<path[1], path[3]>>

PathSegments == -2..2

\* buckets and encrypted paths as sequences of "/"-separated parts
PathBuckets == Buckets \cup {<<"b", "x", "y">>}
PathRests == {<<>>, <<"p">>, <<"p", "q">>}

CreatePathInput(segment, bucket, path) ==
    [segment |-> segment, bucket |-> bucket, path |-> path]

\* CreatePath and, on the path it gives, the bucket IDs of the audit
\* verifier, of the repairer and of the endpoint
CreatePathCall ==
    \E segment \in PathSegments, bucket \in PathBuckets, path \in PathRests :
        LET created == CreatePath(ProjectID, segment, bucket, path)
        IN /\ calc.fn = ""
           /\ calc' = Calc("CreatePath", CreatePathInput(segment, bucket, path),
                           [created |-> created,
                            audit |-> AuditBucketID(created.path),
                            repair |-> RepairBucketID(created.path),
                            endpoint |-> EndpointBucketID(ProjectID, bucket)])
           /\ UNCHANGED notCalc

\* ---- the deadline of a share download --------------------------------------
\* durations in milliseconds
Second == 1000

\* share sizes in bytes and the configured floors in bytes per second
ShareSizes == {1, 6, 7, 12}
ByteRates == {-1, 0, 1, 2, 5}

Deadline(set, timeout) == [set |-> set, timeout |-> timeout]

\* a download that is given five seconds whatever the floor
TransferDeadlineFlat(shareSize, minBytesPerSecond) ==
    IF minBytesPerSecond > 0 THEN Deadline(TRUE, 5 * Second) ELSE Deadline(FALSE, 0)

\* the context Verifier.GetShare dials and downloads under: with a positive
\* floor the time the share takes at the floor, at least five seconds;
\* otherwise the context of the caller, which carries no deadline of its own
TransferDeadline(shareSize, minBytesPerSecond) ==
    IF minBytesPerSecond > 0
    THEN LET maxTransferTime == (Second * shareSize) \div minBytesPerSecond
         IN Deadline(TRUE, IF maxTransferTime < 5 * Second THEN 5 * Second
                           ELSE maxTransferTime)
    ELSE Deadline(FALSE, 0)

GetShareDeadlineCall ==
    \E shareSize \in ShareSizes, minBytesPerSecond \in ByteRates :
        /\ calc.fn = ""
        /\ calc' = Calc("GetShare",
                        [shareSize |-> shareSize, minBytesPerSecond |-> minBytesPerSecond],
                        TransferDeadline(shareSize, minBytesPerSecond))
        /\ UNCHANGED notCalc

\* the caller takes the result; the next call starts afresh
CalcReturn ==
    /\ calc.fn # ""
    /\ calc' = [fn |-> "", in |-> <<>>, out |-> <<>>]
    /\ UNCHANGED notCalc

InitPure ==
    /\ IdleClient /\ IdleAudit /\ IdleRepair /\ IdleRpc /\ IdleCalc /\ IdleProc
    /\ pointerdb = EmptyDb

NextPure ==
    \/ CalcNeededNodesCall
    \/ ListCall
    \/ CreatePathCall
    \/ GetShareDeadlineCall
    \/ CalcReturn

SpecPure == InitPure /\ [][NextPure]_vars

\* ------------------------------------------------------------------------
\* Segment store claims
\* ------------------------------------------------------------------------
GetAfterPut ==
    /\ getRes.called
    /\ written # <<>>
    /\ getRes.path = written[1].path

GetReturnsWritten ==
    /\ getRes.err = ""
    /\ getRes.data = written[1].data
    /\ getRes.meta = written[1].meta

\* C1: a Get that follows a successful Put(B) at the same path, no node
\* having crashed in between, succeeds and its full range is exactly B, with
\* the metadata given to Put, for inline and for remote segments alike.
C1_RoundTrip ==
    (GetAfterPut /\ crashedSince = {}) => GetReturnsWritten

C1_Witness ==
    /\ GetAfterPut /\ crashedSince = {}
    /\ written[1].remote
    /\ Len(written[1].data) = MaxEncryptedSegmentSize
    /\ getRes.err = "" /\ getRes.data = written[1].data

\* C2 as stated: after a successful remote Put, if at most total - min of the
\* nodes selected for the segment crashed, Get still returns B.
C2_Original ==
    (/\ GetAfterPut /\ written[1].remote
     /\ Cardinality(crashedSince \cap written[1].selected) <= rs.total - rs.min)
        => GetReturnsWritten

\* C2 amended: after a successful remote Put, if the nodes that crashed
\* afterwards leave at least min of the nodes holding a committed piece
\* running, Get still returns B.
C2_Durability ==
    (/\ GetAfterPut /\ written[1].remote
     /\ Cardinality(crashedSince \cap written[1].holders)
            <= Cardinality(written[1].holders) - rs.min)
        => GetReturnsWritten

C2_Witness ==
    /\ GetAfterPut /\ written[1].remote
    /\ Cardinality(written[1].holders) > rs.min
    /\ Cardinality(crashedSince \cap written[1].holders)
            = Cardinality(written[1].holders) - rs.min
    /\ getRes.err = "" /\ getRes.data = written[1].data


\* ------------------------------------------------------------------------
\* Audit verifier claims
\* ------------------------------------------------------------------------
AuditPiecesOf == stripe.pointer.remote.pieces
AuditPieceIdx == DOMAIN AuditPiecesOf

\* the report by the members of its lists of node IDs
Members(rep) ==
    [successes |-> Range(rep.successes), fails |-> Range(rep.fails),
     offlines |-> Range(rep.offlines), pendingAudits |-> rep.pendingAudits]

\* the node IDs the report's pending audits name
PendingIDs(rep) ==
    {rep.pendingAudits[i].nodeID :
        i \in {j \in DOMAIN rep.pendingAudits : ~rep.pendingAudits[j].nil}}

\* the pieces Verify has a limit for, by its inputs
LimitedIdx ==
    {j \in AuditPieceIdx : /\ AuditPiecesOf[j].node \notin auditIn.skip
                           /\ AuditPiecesOf[j].node \in auditIn.online}

VerifyResponse(j) == auditIn.resp[AuditPiecesOf[j].num]
VerifyReturned(j) ==
    GetShare(EncodeSingle(stripe.data, AuditPiecesOf[j].num),
             AuditPiecesOf[j].num, VerifyResponse(j)).data

\* C3: in every report Verify or Reverify returns, Successes, Fails,
\* Offlines and the node IDs of PendingAudits are pairwise disjoint and their
\* union is the set of nodes the call contacted: those it had a limit for
\* and dialled with it.
C3_Partition ==
    auditRun.hasReport =>
        LET rep == Members(auditRun.report)
            pend == PendingIDs(rep)
        IN /\ rep.successes \cap rep.fails = {}
           /\ rep.successes \cap rep.offlines = {}
           /\ rep.successes \cap pend = {}
           /\ rep.fails \cap rep.offlines = {}
           /\ rep.fails \cap pend = {}
           /\ rep.offlines \cap pend = {}
           /\ rep.successes \cup rep.fails \cup rep.offlines \cup pend
                = auditRun.trace.limited

\* C4: in Verify, a node with a limit whose download succeeds has its share
\* among those corrected, one whose download ends with deadline-exceeded or a
\* non-transport error is contained, one whose download ends with a transport
\* error is offline; when the correction succeeds every node whose corrected
\* share differs from what it returned is in Fails, and Successes is the
\* nodes with a limit minus the failed, offline and contained ones.
C4_VerifyClassification ==
    (auditRun.op = "Verify" /\ auditRun.hasReport) =>
        LET rep == Members(auditRun.report)
            tr == auditRun.trace
        IN /\ \A j \in LimitedIdx :
                LET node == AuditPiecesOf[j].node
                IN /\ VerifyResponse(j) \in {"good", "corrupt"} => node \in tr.audited
                   /\ VerifyResponse(j) \in {"deadline", "other"} => node \in tr.contained
                   /\ VerifyResponse(j) = "transport"
                        => (node \in tr.offline /\ node \in rep.offlines)
           /\ tr.corrected =>
                /\ \A j \in LimitedIdx :
                     (/\ VerifyResponse(j) \in {"good", "corrupt"}
                      /\ <<AuditPiecesOf[j].num, VerifyReturned(j)>> \notin tr.correctedShares)
                        => AuditPiecesOf[j].node \in rep.fails
                /\ rep.successes
                     = {AuditPiecesOf[j].node : j \in LimitedIdx}
                            \ (rep.fails \cup rep.offlines \cup tr.contained)

C4_Witness ==
    /\ auditRun.op = "Verify" /\ auditRun.trace.corrected
    /\ auditRun.trace.contained # {}
    /\ auditRun.report.offlines # <<>>
    /\ auditRun.report.successes # <<>>

\* C5: when Verify has at least k shares and the correction succeeds, the
\* report holds exactly one PendingAudit per contained node, with the node's
\* ID, the stripe index, the share size and the SHA-256 of the share
\* EncodeSingle gives for the node's piece number over the corrected stripe.
C5_PendingAudits ==
    (auditRun.op = "Verify" /\ auditRun.hasReport /\ auditRun.trace.corrected) =>
        LET rep == auditRun.report
            tr == auditRun.trace
            k == stripe.pointer.remote.redundancy.min
        IN /\ Len(rep.pendingAudits) = Cardinality(tr.contained)
           /\ PendingIDs(rep) = tr.contained
           /\ \A i \in DOMAIN rep.pendingAudits :
                LET pa == rep.pendingAudits[i]
                IN \E j \in AuditPieceIdx :
                     /\ AuditPiecesOf[j].node = pa.nodeID
                     /\ pa.stripeIndex = stripe.index
                     /\ pa.shareSize = stripe.pointer.remote.redundancy.shareSize
                     /\ pa.expectedShareHash
                          = SHA256Hash(EncodeSingle(Rebuild(tr.correctedShares, k),
                                                    AuditPiecesOf[j].num))

\* C6: when Verify obtained its limits and fewer than k downloads succeeded,
\* it fails with NotEnoughShares without running the correction, and its
\* report holds the offline nodes and nothing else.
C6_NotEnoughShares ==
    (/\ auditRun.op = "Verify" /\ auditRun.err # "orders"
     /\ Cardinality({j \in LimitedIdx : VerifyResponse(j) \in {"good", "corrupt"}})
            < stripe.pointer.remote.redundancy.min)
        => /\ auditRun.hasReport
           /\ auditRun.err = "NotEnoughShares"
           /\ ~auditRun.trace.corrected
           /\ auditRun.report.successes = <<>>
           /\ auditRun.report.fails = <<>>
           /\ auditRun.report.pendingAudits = <<>>
           /\ Range(auditRun.report.offlines)
                = {AuditPiecesOf[j].node :
                     j \in {i \in LimitedIdx : VerifyResponse(i) = "transport"}}
           /\ Len(auditRun.report.offlines)
                = Cardinality({i \in LimitedIdx : VerifyResponse(i) = "transport"})

C6_Witness ==
    /\ auditRun.op = "Verify" /\ auditRun.err = "NotEnoughShares"
    /\ auditRun.trace.audited # {}
    /\ auditRun.trace.contained # {}
    /\ auditRun.report.offlines # <<>>
    /\ auditRun.report.successes = <<>>

\* C7: in Verify, every piece-holder that is not skipped and got no limit
\* because the overlay marks it offline is in the report's Offlines.
C7_AbsentLimitOffline ==
    (auditRun.op = "Verify" /\ auditRun.hasReport) =>
        \A j \in AuditPieceIdx :
            (/\ AuditPiecesOf[j].node \notin auditIn.skip
             /\ AuditPiecesOf[j].node \notin auditIn.online)
                => AuditPiecesOf[j].node \in Range(auditRun.report.offlines)

\* C8: in Reverify, a piece-holder with a pending audit is in Successes when
\* the hash of its share matches, in Fails when it differs, in Offlines on a
\* transport error, and on deadline-exceeded or another error its pending
\* record is in the report's PendingAudits; a piece-holder without a pending
\* audit is in none of the four sets and is not contacted.
C8_Reverify ==
    (auditRun.op = "Reverify" /\ auditRun.hasReport) =>
        LET rep == Members(auditRun.report)
        IN \A j \in AuditPieceIdx :
            LET node == AuditPiecesOf[j].node
                r == auditIn.resp[j]
            IN IF node \in DOMAIN containment
               THEN /\ r = "good" => node \in rep.successes
                    /\ r = "corrupt" => node \in rep.fails
                    /\ r = "transport" => node \in rep.offlines
                    /\ r \in {"deadline", "other"} =>
                         \E i \in DOMAIN rep.pendingAudits :
                            /\ ~rep.pendingAudits[i].nil
                            /\ rep.pendingAudits[i] = containment[node]
               ELSE /\ node \notin rep.successes \cup rep.fails \cup rep.offlines
                                    \cup PendingIDs(rep)
                    /\ node \notin auditRun.trace.limited

\* ------------------------------------------------------------------------
\* Segment repairer claims
\* ------------------------------------------------------------------------
RepairOld == repairBefore[repairRun.path]

\* the call found a REMOTE pointer, built its redundancy strategy and learned
\* its missing pieces
RepairReachedGate ==
    /\ repairRun.called
    /\ DbHas(repairBefore, repairRun.path)
    /\ RepairOld.type = "REMOTE"
    /\ NewRedundancyStrategyFromProto(RepairOld.remote.redundancy) = ""
    /\ repairIn.fail # "missing"

\* the pieces of the old pointer whose node is not reported missing
Survivors ==
    {RepairOld.remote.pieces[j] :
        j \in {i \in DOMAIN RepairOld.remote.pieces :
                  RepairOld.remote.pieces[i].node \notin repairIn.badNodes}}

RepairHealthy ==
    Len(RepairOld.remote.pieces)
        - Cardinality({i \in DOMAIN RepairOld.remote.pieces :
                          RepairOld.remote.pieces[i].node \in repairIn.badNodes})

\* C9 (stated for the calls that get to count the healthy pieces: the
\* redundancy strategy of the pointer was built and the overlay told the
\* missing pieces): with healthy = |pieces| - |missing|, Repair fails as irreparable,
\* marking repair_nodes_unavailable, exactly when healthy < min; otherwise it
\* fails as unnecessary, marking repair_unnecessary, exactly when
\* healthy > repair; and with min <= healthy <= repair it goes on, and
\* rewrites the pointer when no collaborator fails.
C9_RepairGate ==
    RepairReachedGate =>
        LET red == RepairOld.remote.redundancy
            h == RepairHealthy
        IN /\ (repairRun.err = "irreparable") <=> (h < red.min)
           /\ ("repair_nodes_unavailable" \in repairRun.marked) <=> (h < red.min)
           /\ (repairRun.err = "unnecessary") <=> (h >= red.min /\ h > red.repair)
           /\ ("repair_unnecessary" \in repairRun.marked)
                <=> (h >= red.min /\ h > red.repair)
           /\ (/\ red.min <= h /\ h <= red.repair
               /\ repairIn.fail = "" /\ repairIn.found.err = ""
               /\ Len(repairRun.path) >= 3)
                => (repairRun.err = "" /\ repairRun.stored)

C9_Witness ==
    /\ RepairReachedGate
    /\ RepairHealthy = RepairOld.remote.redundancy.repair
    /\ RepairOld.remote.redundancy.min < RepairOld.remote.redundancy.repair
    /\ repairRun.err = "" /\ repairRun.stored

RepairOutcomeMeters == {"repair_success", "repair_partial", "repair_failed"}

\* C10: when Repair gets past download and upload without error, the pointer
\* at the path has the surviving pieces of the old pointer and one piece per
\* new node whose upload succeeded, everything else but the modification
\* time as before, and exactly one of the three outcome meters is marked: repair_success when
\* |pieces| >= optimal, repair_partial when repair < |pieces| < optimal,
\* repair_failed when |pieces| <= repair.
C10_RepairOutcome ==
    (repairRun.called /\ repairRun.err = "") =>
        LET new == pointerdb[repairRun.path]
            red == RepairOld.remote.redundancy
            n == Len(new.remote.pieces)
            newOnes == Range(new.remote.pieces) \ Survivors
        IN /\ repairRun.stored
           /\ DbHas(pointerdb, repairRun.path)
           /\ new = [RepairOld EXCEPT !.remote.pieces = new.remote.pieces,
                                      !.modified = new.modified]
           /\ Survivors \subseteq Range(new.remote.pieces)
           /\ {p.num : p \in newOnes} = repairIn.okNums
           /\ {p.node : p \in newOnes} \subseteq Range(repairIn.found.nodes)
           /\ Cardinality(newOnes) = Cardinality(repairIn.okNums)
           /\ n = Cardinality(Survivors) + Cardinality(repairIn.okNums)
           /\ repairRun.marked \cap RepairOutcomeMeters =
                IF n >= red.optimal THEN {"repair_success"}
                ELSE IF n > red.repair THEN {"repair_partial"}
                ELSE {"repair_failed"}

RepairNew == pointerdb[repairRun.path]
RepairNoError == repairRun.called /\ repairRun.err = ""

\* C11 as stated: for a pointer with healthy <= repair, when Repair returns
\* without error the stored pointer has more than repair pieces and every
\* healthy piece-holder of the old pointer is a piece-holder of the new one.
C11_Original ==
    (RepairNoError /\ RepairHealthy <= RepairOld.remote.redundancy.repair) =>
        /\ Len(RepairNew.remote.pieces) > RepairOld.remote.redundancy.repair
        /\ {p.node : p \in Survivors} \subseteq PieceNodes(RepairNew.remote.pieces)

\* C11 (amended): for a pointer with healthy <= repair, when Repair returns
\* without error every healthy piece-holder of the old pointer is a
\* piece-holder of the stored pointer, which has at least the healthy
\* count of pieces and more than repair pieces unless the call marks
\* repair_failed.
C11_RepairKeepsHealthy ==
    (RepairNoError /\ RepairHealthy <= RepairOld.remote.redundancy.repair) =>
        /\ {p.node : p \in Survivors} \subseteq PieceNodes(RepairNew.remote.pieces)
        /\ Len(RepairNew.remote.pieces) >= RepairHealthy
        /\ "repair_failed" \notin repairRun.marked
              => Len(RepairNew.remote.pieces) > RepairOld.remote.redundancy.repair
        /\ "repair_failed" \in repairRun.marked
              => Len(RepairNew.remote.pieces) <= RepairOld.remote.redundancy.repair

C11_Witness ==
    /\ RepairNoError
    /\ repairIn.badNodes \cap PieceNodes(RepairOld.remote.pieces) # {}
    /\ repairIn.okNums # {}
    /\ "repair_failed" \notin repairRun.marked
    /\ Len(RepairNew.remote.pieces) > RepairOld.remote.redundancy.repair

\* C12: whenever Repair returns an error, the pointer database holds at the
\* path what it held before the call (the same pointer, or none); Repair on
\* an INLINE pointer fails and changes nothing.
C12_ErrorLeavesPointer ==
    /\ (repairRun.called /\ repairRun.err # "") => pointerdb = repairBefore
    /\ (/\ repairRun.called /\ DbHas(repairBefore, repairRun.path)
        /\ RepairOld.type = "INLINE")
            => (repairRun.err # "" /\ pointerdb = repairBefore)

\* the uploads outstanding when the timeout expires: the piece numbers
\* Repair uploads to whose transfer has not ended
RepairOutstanding ==
    LET old == repairBefore[repairRun.path]
        putLimits == CreatePutRepairOrderLimits(old,
                         CreateGetRepairOrderLimits(old, repairRun.healthyPieces),
                         repairIn.found.nodes)
    IN {i - 1 : i \in {j \in DOMAIN putLimits : ~putLimits[j].nil}} \ repairIn.okNums

\* C13: when the timeout expires while piece transfers are outstanding,
\* every outstanding transfer is cancelled, Repair returns an error and the
\* pointer database is as before the call.
C13_Timeout ==
    (repairRun.called /\ repairIn.fail = "timeout" /\ RepairOutstanding # {}) =>
        /\ repairRun.cancelled = RepairOutstanding
        /\ repairRun.err # ""
        /\ ~repairRun.stored
        /\ pointerdb = repairBefore

C13_Witness ==
    /\ repairRun.called /\ repairIn.fail = "timeout"
    /\ repairIn.okNums # {}
    /\ repairRun.cancelled # {}
    /\ repairRun.err = "timeout"
    /\ pointerdb = repairBefore

\* C14 as stated: a Repair call leaves every stored path stored and changes
\* nothing of its pointer but the piece list, so across any sequence of
\* calls the type, the root piece ID and the redundancy scheme stay those
\* of the pointer first committed.
C14_Original ==
    [][/\ DOMAIN pointerdb' = DOMAIN pointerdb
       /\ \A path \in DOMAIN pointerdb :
            /\ pointerdb'[path].type = pointerdb[path].type
            /\ pointerdb'[path].remote.root = pointerdb[path].remote.root
            /\ pointerdb'[path].remote.redundancy = pointerdb[path].remote.redundancy
            /\ pointerdb'[path]
                 = [pointerdb[path] EXCEPT
                       !.remote.pieces = pointerdb'[path].remote.pieces]]_vars

\* C14 (amended): a Repair call leaves every stored path stored and changes
\* nothing of its pointer but the piece list and the modification time,
\* which is that of the call when the call stores the pointer and is left
\* alone when it does not; so across any sequence of calls the type, the
\* root piece ID and the redundancy scheme stay those of the pointer first
\* committed.
C14_RepairChangesOnlyPieces ==
    [][/\ DOMAIN pointerdb' = DOMAIN pointerdb
       /\ \A path \in DOMAIN pointerdb :
            /\ pointerdb'[path].type = pointerdb[path].type
            /\ pointerdb'[path].remote.root = pointerdb[path].remote.root
            /\ pointerdb'[path].remote.redundancy = pointerdb[path].remote.redundancy
            /\ pointerdb'[path]
                 = [pointerdb[path] EXCEPT
                       !.remote.pieces = pointerdb'[path].remote.pieces,
                       !.modified = pointerdb'[path].modified]
            /\ pointerdb'[path].modified
                 = IF repairRun'.called /\ repairRun'.stored /\ ~repairRun.called
                      /\ path = repairRun'.path
                   THEN repairIn'.now
                   ELSE pointerdb[path].modified]_vars

\* a second call rewrites a pointer that a first call has rewritten, and
\* the pointer has the pieces and the modification time the second gave it
C14_Witness ==
    /\ repairs = 2 /\ RepairNoError /\ repairRun.stored
    /\ PieceNodes(RepairOld.remote.pieces) \ Nodes # {}
    /\ RepairNew.remote.pieces # RepairOld.remote.pieces
    /\ RepairOld.modified = 2
    /\ RepairNew.modified = repairIn.now
    /\ repairIn.now = 3

\* ------------------------------------------------------------------------
\* Metainfo endpoint claims
\* ------------------------------------------------------------------------
\* the pointer database path the last RPC addressed
RpcPath ==
    CreatePath(ProjectID, rpcIn.req.segment, rpcIn.req.bucket, rpcIn.req.path).path

\* the last RPC was a CommitSegment that returned without error
CommitAccepted ==
    /\ rpcOut.called
    /\ rpcIn.rpc = "CommitSegment"
    /\ rpcOut.status = "OK"

\* C15: every REMOTE pointer stored by a successful CommitSegment has at
\* least min pieces of its redundancy scheme
C15_StoredHasMinPieces ==
    (CommitAccepted /\ rpcIn.req.pointer.type = "REMOTE") =>
        Len(pointerdb[RpcPath].remote.pieces)
            >= pointerdb[RpcPath].remote.redundancy.min

\* no piece number is listed twice
UniqueNums(pieces) ==
    \A i, j \in DOMAIN pieces : pieces[i].num = pieces[j].num => i = j

\* C16: in every REMOTE pointer held in the pointer database no two pieces
\* have the same piece number
C16_UniquePieceNums ==
    \A p \in DOMAIN pointerdb :
        pointerdb[p].type = "REMOTE" => UniqueNums(pointerdb[p].remote.pieces)

\* the last RPC was a CommitSegment of a REMOTE pointer that passed the
\* checks made before the pieces are counted
CommitReachedCount ==
    /\ rpcOut.called
    /\ rpcIn.rpc = "CommitSegment"
    /\ rpcIn.req.pointer.type = "REMOTE"
    /\ validateAuth(rpcIn.req.key,
                    Action("Write", rpcIn.req.bucket, rpcIn.req.path,
                           rpcIn.req.now))
    /\ validateBucket(rpcIn.req.bucket) = ""
    /\ validateCommit(rpcIn.req) = ""

\* C17: a CommitSegment of a REMOTE pointer with |pieces| <= repair and
\* repair # optimal is rejected with InvalidArgument and the repair
\* threshold message, and nothing is stored
C17_RepairThresholdRejected ==
    (/\ CommitReachedCount
     /\ Len(rpcIn.req.pointer.remote.pieces)
            <= rpcIn.req.pointer.remote.redundancy.repair
     /\ rpcIn.req.pointer.remote.redundancy.repair
            # rpcIn.req.pointer.remote.redundancy.optimal)
        => /\ rpcOut.status = "InvalidArgument"
           /\ rpcOut.msg = RepairThresholdMessage
           /\ pointerdb = rpcBefore

\* the limit the request holds for a piece is the satellite's own limit for
\* that piece on that node
LimitMatches(req, piece) ==
    /\ piece.num >= 0
    /\ piece.num < Len(req.limits)
    /\ ~req.limits[piece.num + 1].nil
    /\ req.limits[piece.num + 1].signed
    /\ req.limits[piece.num + 1].pieceId = Derive(req.pointer.remote.root, piece.node)
    /\ req.limits[piece.num + 1].node = piece.node

LimitsValid(req) ==
    /\ Len(req.limits) = req.pointer.remote.redundancy.total
    /\ \A i \in DOMAIN req.pointer.remote.pieces :
            LimitMatches(req, req.pointer.remote.pieces[i])

\* the last RPC was a CommitSegment of a REMOTE pointer
CommitRemote ==
    /\ rpcOut.called
    /\ rpcIn.rpc = "CommitSegment"
    /\ rpcIn.req.pointer.type = "REMOTE"
    /\ ~rpcIn.req.pointer.remote.nil

\* C18: CommitSegment stores a REMOTE pointer only if there are total
\* original limits and every listed piece has, at the index of its piece
\* number, a non-nil signed limit with the derived piece id and the piece's
\* node; otherwise the commit is rejected and nothing is stored
C18_CommitValidatesLimits ==
    CommitRemote =>
        /\ rpcOut.status = "OK" => LimitsValid(rpcIn.req)
        /\ ~LimitsValid(rpcIn.req) =>
                rpcOut.status # "OK" /\ pointerdb = rpcBefore

\* a commit listing all four pieces is refused because the limit of a
\* listed piece names another node, and nothing is stored
C18_Witness ==
    /\ CommitRemote
    /\ rpcOut.status = "Internal"
    /\ rpcOut.msg = "piece NodeID != order limit NodeID"
    /\ ~LimitsValid(rpcIn.req)
    /\ Len(rpcIn.req.pointer.remote.pieces) = 4
    /\ pointerdb = rpcBefore

\* the operation each RPC is to be authorised for
OpOf(rpc) ==
    CASE rpc \in {"SegmentInfo", "DownloadSegment"} -> "Read"
      [] rpc \in {"CreateSegment", "CommitSegment"} -> "Write"
      [] rpc = "DeleteSegment" -> "Delete"
      [] rpc = "ListSegments" -> "List"

\* a caveat of the key forbids the operation, the path or the time of the
\* last RPC
CaveatFails ==
    \E c \in rpcIn.req.key.caveats :
        \/ OpOf(rpcIn.rpc) \in c.disallow
        \/ c.paths # {} /\ \A p \in c.paths :
                \/ p.bucket # rpcIn.req.bucket
                \/ ~HasPrefix(rpcIn.req.path, p.prefix)
        \/ c.notBefore # NoTime /\ rpcIn.req.now < c.notBefore
        \/ c.notAfter # NoTime /\ rpcIn.req.now > c.notAfter

KeyRefused ==
    \/ ~rpcIn.req.key.present
    \/ ~rpcIn.req.key.parses
    \/ ~rpcIn.req.key.known
    \/ CaveatFails

\* C19: every pointer RPC checks the key first, for the operation of the
\* RPC: a missing, unparsable or unknown key or a failing caveat gives
\* Unauthenticated whatever else the request holds and leaves the pointer
\* database unchanged, and a permitted key never gets Unauthenticated
C19_AuthFirst ==
    rpcOut.called =>
        /\ KeyRefused => rpcOut.status = "Unauthenticated" /\ pointerdb = rpcBefore
        /\ ~KeyRefused => rpcOut.status # "Unauthenticated"

\* while the database holds pointers, a key that forbids deletes asks for a
\* delete under a bucket name that is not in order, and is refused as
\* unauthenticated
C19_Witness ==
    /\ rpcOut.called
    /\ rpcIn.rpc = "DeleteSegment"
    /\ rpcIn.req.key = Restricted(Caveat({"Delete"}, {}, NoTime, NoTime))
    /\ validateBucket(rpcIn.req.bucket) # ""
    /\ rpcBefore # EmptyDb
    /\ rpcOut.status = "Unauthenticated"
    /\ pointerdb = rpcBefore

\* ------------------------------------------------------------------------
\* Segment store claims: Delete
\* ------------------------------------------------------------------------
\* no Put has stored a segment under the path
NeverWritten(path) == written = <<>> \/ written[1].path # path

\* a Get or a Meta of a path deleted with success fails with KeyNotFound
GoneAfterDelete ==
    /\ (getRes.called /\ getRes.path \in deleted) => getRes.err = "KeyNotFound"
    /\ (metaRes.called /\ metaRes.path \in deleted) => metaRes.err = "KeyNotFound"

\* a Delete of a path that was deleted with success, or that was never
\* written, fails with KeyNotFound and changes nothing
DeleteOfAbsent ==
    (delRes'.called /\ (delRes'.path \in deleted \/ NeverWritten(delRes'.path)))
        => /\ delRes'.err = "KeyNotFound"
           /\ UNCHANGED <<pointerdb, pieceStore, deleted>>

\* C20: after a successful Delete of a path, Get and Meta on it fail with
\* KeyNotFound and so does a second Delete; a Delete of a path never written
\* fails with KeyNotFound and changes nothing
C20_DeleteThenKeyNotFound ==
    [] GoneAfterDelete /\ [][DeleteOfAbsent]_vars

\* a remote segment was put and deleted with success, and the Get that
\* follows fails with KeyNotFound
C20_Witness ==
    /\ written # <<>>
    /\ written[1].remote
    /\ written[1].path \in deleted
    /\ getRes.called
    /\ getRes.path = written[1].path
    /\ getRes.err = "KeyNotFound"

\* C21: a Delete removes the pointer of a REMOTE segment only once the DELETE
\* limits have been issued and the delete requests sent to the nodes they
\* name: a step that removes such a pointer is a Delete that succeeds and
\* has every node that is up drop its piece
C21_PointerRemovedLast ==
    [][\A path \in DOMAIN pointerdb :
          (pointerdb[path].type = "REMOTE" /\ path \notin DOMAIN pointerdb')
            => /\ delRes'.called
               /\ delRes'.err = ""
               /\ pieceStore' = DeletePieces(pieceStore,
                                    CreateDeleteOrderLimits(pointerdb[path]),
                                    nodeUp)]_vars

\* ------------------------------------------------------------------------
\* Segment store claims: Meta
\* ------------------------------------------------------------------------
\* the pointer database path of a store path
StoredAt(path) ==
    CreatePath(ProjectID, StoreSegmentIndex(path), StoreBucket(path),
               StoreRest(path)).path

\* the Meta is that of the segment the Put wrote
MetaOfWritten(meta) ==
    /\ meta.size = Len(written[1].data)
    /\ meta.data = written[1].meta
    /\ meta.expiration = written[1].expiration
    /\ meta.modified > written[1].before

\* C22: after a successful Put of B the stored pointer is INLINE if B is no
\* longer than the inline limit and REMOTE otherwise; the Meta that Put
\* returned and that of a later Meta report the size of B, the metadata and
\* the expiration given to Put and a modification time later than the
\* instant before the Put; a Meta of a path never written fails with
\* KeyNotFound
C22_MetaAfterPut ==
    /\ written # <<>> =>
          /\ MetaOfWritten(written[1].ret)
          /\ DbHas(pointerdb, StoredAt(written[1].path)) =>
                /\ pointerdb[StoredAt(written[1].path)].type
                     = IF Len(written[1].data) <= MaxInlineSize
                       THEN "INLINE" ELSE "REMOTE"
                /\ (metaRes.called /\ metaRes.path = written[1].path) =>
                      metaRes.err = "" /\ MetaOfWritten(metaRes.meta)
    /\ (metaRes.called /\ NeverWritten(metaRes.path)) =>
          metaRes.err = "KeyNotFound"

\* a remote segment of two bytes was put and a Meta of its path reports it
C22_Witness ==
    /\ written # <<>>
    /\ written[1].remote
    /\ Len(written[1].data) = 2
    /\ metaRes.called
    /\ metaRes.path = written[1].path
    /\ metaRes.err = ""
    /\ metaRes.meta = written[1].ret
    /\ metaRes.meta.modified > written[1].before
    /\ metaRes.meta.expiration \in Expirations

\* ------------------------------------------------------------------------
\* Pure function claims
\* ------------------------------------------------------------------------
\* C23: CalcNeededNodes gives the answers of the table: 0 for (0,0,0,0),
\* 1 for (1,1,1,1), 2 for (1,1,2,2), 2 for (1,2,2,2), 3 for (2,3,4,4),
\* 3 for (2,4,6,8), 25 for (20,30,40,50) and 34 for (29,35,80,95)
C23_NeededTable ==
    calc.fn = "CalcNeededNodes" =>
        \A row \in NeededTable : calc.in = row[1] => calc.out = row[2]

\* the call on (1,2,2,2), where the share above the success threshold is
\* none and one piece is added all the same
C23_Witness ==
    /\ calc.fn = "CalcNeededNodes"
    /\ calc.in = Scheme(1, 2, 2, 2)
    /\ calc.out = 2

\* the quotient k * o / m rounded up
CeilRatio(k, o, m) == (k * o + m - 1) \div m

\* C24: for every scheme (k, m, o, n) CalcNeededNodes returns the ceiling of
\* k * o / m, raised to k when that is below k
C24_NeededFormula ==
    (/\ calc.fn = "CalcNeededNodes"
     /\ 1 <= calc.in.min /\ calc.in.min <= calc.in.repair
     /\ calc.in.repair < calc.in.optimal /\ calc.in.optimal <= calc.in.total) =>
        calc.out = IF CeilRatio(calc.in.min, calc.in.optimal, calc.in.repair) < calc.in.min
                   THEN calc.in.min
                   ELSE CeilRatio(calc.in.min, calc.in.optimal, calc.in.repair)

\* the items a listing has to choose from: the objects under the prefix key
\* and, when the listing is not recursive, one prefix for each first
\* component that keys continue below, all strictly after the cursor
ExpectedItems(in) ==
    LET rel == RelativeKeys(in.keys, in.prefix)
        plain(r) == \A i \in DOMAIN r : r[i] # Delimiter
        objects == {ListItem(r, FALSE) : r \in {r \in rel : in.recursive \/ plain(r)}}
        heads == UNION {{SubSeq(r, 1, i) : i \in DOMAIN r} : r \in rel}
        prefixes == IF in.recursive THEN {}
                    ELSE {ListItem(h, TRUE) :
                            h \in {h \in heads :
                                     /\ h # <<>>
                                     /\ h[Len(h)] = Delimiter
                                     /\ plain(SubSeq(h, 1, Len(h) - 1))
                                     /\ \E r \in rel : HasPrefix(r, h) /\ Len(r) > Len(h)}}
    IN {e \in objects \cup prefixes : in.startAfter = <<>> \/ KeyLess(in.startAfter, e.path)}

\* a listing returns the first items of those expected, in order, and says
\* whether there are more; atMost is the number of items it may return
ListedRight(in, out, atMost) ==
    /\ \A i \in DOMAIN out.items : out.items[i] \in ExpectedItems(in)
    /\ \A i \in DOMAIN out.items : \A j \in DOMAIN out.items :
           i < j => KeyLess(out.items[i].path, out.items[j].path)
    /\ \A e \in ExpectedItems(in) \ Range(out.items) :
           \A i \in DOMAIN out.items : KeyLess(out.items[i].path, e.path)
    /\ Len(out.items) <= atMost
    /\ out.more <=> (Cardinality(ExpectedItems(in)) > Len(out.items))
    /\ (RelativeKeys(in.keys, in.prefix) = {}) => (out.items = <<>> /\ ~out.more)

\* C25 as stated: List returns the matching items in lexicographic order,
\* collapsed into prefixes when not recursive, after the cursor, never more
\* than limit of them, with more = true exactly when matching items remain
C25_ListAtMostLimit ==
    calc.fn = "List" => ListedRight(calc.in, calc.out, calc.in.limit)

\* C25: List returns the matching items in lexicographic path order,
\* collapsed into prefixes when not recursive, only those after the cursor,
\* never more than limit of them when limit is positive (a limit of zero
\* stands for the lookup limit), with more = true exactly when matching
\* items remain beyond those returned, and nothing for a prefix that matches
\* nothing
C25_List ==
    calc.fn = "List" =>
        ListedRight(calc.in, calc.out,
                    IF calc.in.limit > 0 THEN calc.in.limit ELSE LookupLimit)

\* the listing of TestSegmentStoreList cut at two items
C25_Witness ==
    /\ calc.fn = "List"
    /\ calc.in = ListInput(TestKeys, NameL, <<>>, TRUE, 2)
    /\ Len(calc.out.items) = 2
    /\ calc.out.more

\* the listings TestSegmentStoreList expects
C25_TestTable ==
    (calc.fn = "List" /\ calc.in.keys = TestKeys /\ calc.in.limit = 10) =>
        /\ (calc.in.prefix = NameL /\ calc.in.startAfter = <<>>) =>
               /\ Len(calc.out.items) = (IF calc.in.recursive THEN 5 ELSE 2)
               /\ ~calc.out.more
        /\ (calc.in.prefix = JoinKey(<<NameL, NameBBBB>>) /\ ~calc.in.recursive) =>
               (/\ calc.in.startAfter = <<>> => Len(calc.out.items) = 3
                /\ calc.in.startAfter = NameAfile1 => Len(calc.out.items) = 2)
        /\ (calc.in.prefix = JoinKey(<<NameL, NameCCCC>>)) =>
               (calc.out.items = <<>> /\ ~calc.out.more)

\* ------------------------------------------------------------------------
\* Redundancy scheme claims
\* ------------------------------------------------------------------------
\* the invariant of a redundancy scheme
SchemeInOrder(redundancy) ==
    /\ 1 <= redundancy.min
    /\ redundancy.min <= redundancy.repair
    /\ redundancy.repair < redundancy.optimal
    /\ redundancy.optimal <= redundancy.total
    /\ redundancy.shareSize > 0

\* the last RPC was a CreateSegment that passed authorization and the
\* validation of the bucket
CreateReachedScheme ==
    /\ rpcOut.called
    /\ rpcIn.rpc = "CreateSegment"
    /\ rpcOut.status # "Unauthenticated"
    /\ validateBucket(rpcIn.req.bucket) = ""

\* C26: every scheme CreateSegment accepts and every scheme of a REMOTE
\* pointer stored by CommitSegment has 1 <= min <= repair < optimal <= total
\* and a positive share size; a request with any other scheme is rejected
\* with InvalidArgument
C26_SchemesInOrder ==
    /\ CreateReachedScheme =>
          /\ rpcOut.status = "OK" => SchemeInOrder(rpcIn.req.redundancy)
          /\ ~SchemeInOrder(rpcIn.req.redundancy) => rpcOut.status = "InvalidArgument"
    /\ (CommitAccepted /\ rpcIn.req.pointer.type = "REMOTE") =>
          SchemeInOrder(pointerdb[RpcPath].remote.redundancy)

\* ------------------------------------------------------------------------
\* Segment path claims
\* ------------------------------------------------------------------------
\* the component "l" or "s<seg>" of a segment index
SegmentName(segment) ==
    CASE segment = -1 -> "l"
      [] segment = 0 -> "s0"
      [] segment = 1 -> "s1"
      [] segment = 2 -> "s2"

\* CreatePath gives project/l/bucket/path for the last segment,
\* project/s<seg>/bucket/path for a numbered one, an error below -1
PathAsStated ==
    IF calc.in.segment < -1 THEN calc.out.created.err # ""
    ELSE /\ calc.out.created.err = ""
         /\ calc.out.created.path =
                <<ProjectID, SegmentName(calc.in.segment)>> \o calc.in.bucket \o calc.in.path

\* the verifier and the repairer derive the bucket ID of the endpoint
BucketIDsAgree ==
    /\ calc.out.audit = calc.out.endpoint
    /\ calc.out.repair.err = ""
    /\ calc.out.repair.id = calc.out.endpoint

\* C27 as stated: the bucket IDs agree on every path made with a non-empty
\* bucket
C27_AnyBucket ==
    calc.fn = "CreatePath" =>
        /\ PathAsStated
        /\ (calc.out.created.err = "" /\ calc.in.bucket # <<>>) => BucketIDsAgree

\* C27: CreatePath gives project/l/bucket/path for seg = -1,
\* project/s<seg>/bucket/path for seg >= 0 and an error for seg < -1, and on
\* every path made with a bucket that is not empty and holds no slash the
\* bucket ID the audit verifier and the repairer derive is the
\* project/bucket ID of the endpoint
C27_PathAndBucketID ==
    calc.fn = "CreatePath" =>
        /\ PathAsStated
        /\ (calc.out.created.err = "" /\ validateBucket(calc.in.bucket) = "")
               => BucketIDsAgree

\* the path of segment 0 of bucket/p/q and the project/bucket ID derived
\* from it
C27_Witness ==
    /\ calc.fn = "CreatePath"
    /\ calc.in = CreatePathInput(0, <<"bucket">>, <<"p", "q">>)
    /\ calc.out.created.path = <<ProjectID, "s0", "bucket", "p", "q">>
    /\ calc.out.audit = <<ProjectID, "bucket">>
    /\ calc.out.repair.id = <<ProjectID, "bucket">>

\* ------------------------------------------------------------------------
\* Audit purity claims
\* ------------------------------------------------------------------------
\* a step in which Verify runs
VerifyStep ==
    /\ auditRun'.op = "Verify"
    /\ auditIn'.runs > auditIn.runs

\* the four sets of a report: the members of its four lists
ReportSets(rep) ==
    <<Range(rep.successes), Range(rep.fails), Range(rep.offlines),
      Range(rep.pendingAudits)>>

\* C28: a run of Verify changes neither the pointer, the containment
\* records nor any other shared state, and a second run on the same stripe
\* with the same skip set and the same responses of the nodes returns the
\* same Successes, Fails, Offlines and PendingAudits, in whatever order
\* either run meets the entries of its maps
C28_VerifyPure ==
    [][VerifyStep =>
          /\ stripe' = stripe
          /\ containment' = containment
          /\ pointerdb' = pointerdb
          /\ UNCHANGED <<clientVars, repairVars, rpcVars, calc>>
          /\ auditIn'.runs = 2 =>
                /\ ReportSets(auditRun'.report) = ReportSets(auditRun.report)
                /\ auditRun'.err = auditRun.err]_vars

\* a second run, over a containment database that holds pending audits,
\* that found an altered share and passed the three other nodes, and lists
\* the three in another order than the first run did
C28_Witness ==
    /\ auditRun.op = "Verify"
    /\ auditIn.runs = 2
    /\ auditRun.err = ""
    /\ Len(auditRun.report.fails) = 1
    /\ Len(auditRun.report.successes) = 3
    /\ auditRun.report.successes # auditIn.first.successes
    /\ DOMAIN containment # {}

\* ------------------------------------------------------------------------
\* Share download deadline claims
\* ------------------------------------------------------------------------
\* the deadline is the larger of five seconds and the time the share takes
\* at the floor, to the millisecond
DeadlineAsStated ==
    /\ calc.out.set
    /\ calc.out.timeout >= 5 * Second
    /\ calc.in.minBytesPerSecond > 0 =>
          IF Second * calc.in.shareSize < 5 * Second * calc.in.minBytesPerSecond
          THEN calc.out.timeout = 5 * Second
          ELSE /\ calc.out.timeout * calc.in.minBytesPerSecond <= Second * calc.in.shareSize
               /\ (calc.out.timeout + 1) * calc.in.minBytesPerSecond
                      > Second * calc.in.shareSize

\* C29 as stated: every share download runs under a deadline of
\* max(5 seconds, share_size / min_bytes_per_second), whatever
\* min_bytes_per_second is configured
C29_Deadline ==
    calc.fn = "GetShare" => DeadlineAsStated

\* C29: with a positive min_bytes_per_second every share download runs
\* under a deadline of max(5 seconds, share_size / min_bytes_per_second);
\* with one that is not positive it runs under no deadline of its own
C29_DeadlineIfPositive ==
    calc.fn = "GetShare" =>
        IF calc.in.minBytesPerSecond > 0 THEN DeadlineAsStated ELSE ~calc.out.set

\* twelve bytes at two bytes per second: six seconds
C29_Witness ==
    /\ calc.fn = "GetShare"
    /\ calc.in.shareSize = 12
    /\ calc.in.minBytesPerSecond = 2
    /\ calc.out = Deadline(TRUE, 6 * Second)

\* ------------------------------------------------------------------------
\* Audit error propagation claims
\* ------------------------------------------------------------------------
\* the shares Verify downloaded without error are fewer than min
BelowThreshold ==
    Cardinality(auditRun.trace.audited) < stripe.pointer.remote.redundancy.min

\* the pieces of the stripe whose holder Reverify found a pending audit for
\* and whose share arrived and matched
ReverifiedGood ==
    {j \in DOMAIN stripe.pointer.remote.pieces :
        /\ stripe.pointer.remote.pieces[j].node \in DOMAIN containment
        /\ auditIn.resp[j] = "good"}

\* C30: an error met at a single node (making its limit, dialling,
\* downloading, looking up its pending record) only decides that node's
\* category and the other nodes are processed all the same; Verify and
\* Reverify return an error only when fewer than min shares are usable
C30_PerNodeErrorsStayLocal ==
    /\ auditRun.op = "Reverify" =>
          /\ auditRun.err = ""
          /\ \A j \in ReverifiedGood :
                stripe.pointer.remote.pieces[j].node
                    \in Range(auditRun.report.successes)
    /\ (auditRun.op = "Verify" /\ auditRun.err \notin {"", "orders"}) => BelowThreshold

\* ------------------------------------------------------------------------
\* Repair node selection claims
\* ------------------------------------------------------------------------
\* the last Repair got as far as asking the overlay for new nodes
RepairAsked ==
    /\ repairRun.called
    /\ AsksForNodes(repairBefore, repairRun.path, repairIn.badNodes, repairIn.fail)

\* no node holds two pieces of the list
UniqueNodes(pieces) ==
    \A i, j \in DOMAIN pieces : pieces[i].node = pieces[j].node => i = j

\* C31: Repair asks the overlay for exactly total - healthy new nodes,
\* healthy being the number of pieces it keeps, and excludes every node named
\* in the old pointer, so that no node occurs twice among the pieces of the
\* rewritten pointer
C31_NewNodesDistinct ==
    RepairAsked =>
        LET old == repairBefore[repairRun.path]
            request == RepairRequest(repairBefore, repairRun.path, repairIn.badNodes)
        IN /\ request.count = old.remote.redundancy.total - Len(repairRun.healthyPieces)
           /\ request.excluded = {old.remote.pieces[j].node : j \in DOMAIN old.remote.pieces}
           /\ repairRun.stored => UniqueNodes(pointerdb[repairRun.path].remote.pieces)

\* the request of Repair is as stated
C31_Request ==
    RepairAsked =>
        LET old == repairBefore[repairRun.path]
            request == RepairRequest(repairBefore, repairRun.path, repairIn.badNodes)
        IN /\ request.count = old.remote.redundancy.total - Len(repairRun.healthyPieces)
           /\ request.excluded = {old.remote.pieces[j].node : j \in DOMAIN old.remote.pieces}

\* a pointer whose pieces are on different nodes is rewritten to one whose
\* pieces are on different nodes
C31_DistinctKept ==
    (RepairAsked /\ repairRun.stored
        /\ UniqueNodes(repairBefore[repairRun.path].remote.pieces))
        => UniqueNodes(pointerdb[repairRun.path].remote.pieces)

\* ------------------------------------------------------------------------
\* Reverify step by step: the dispatch loop, one task per contained piece,
\* the result channel and the collecting loop
\* ------------------------------------------------------------------------
MaxTasks == 2

\* the mutated capacity: one slot short
ResultCapShort(n) == n - 1
\* ch := make(chan result, len(pieces)); the channel is modelled as the
\* sequence of the pieces whose result (proc.res) is in it
ResultCap(n) == n

InitReverify ==
    /\ pointerdb = EmptyDb
    /\ IdleClient /\ IdleAudit /\ IdleRepair /\ IdleRpc /\ IdleCalc
    /\ \E n \in 1..MaxTasks :
          proc = [kind |-> "Reverify", n |-> n, cap |-> ResultCap(n),
                  pc |-> "dispatch", i |-> 0,
                  task |-> [t \in 1..n |-> "none"],
                  res |-> [t \in 1..n |-> ""],
                  sent |-> [t \in 1..n |-> 0],
                  ch |-> <<>>, got |-> 0, err |-> FALSE]

\* one turn of the loop over the pieces: containment.Get, then either a
\* result to send from the loop itself or a new task
RvDispatch ==
    /\ proc.kind = "Reverify" /\ proc.pc = "dispatch" /\ proc.i < proc.n
    /\ \E lookup \in {"pending", "notfound", "failed"} :
          IF lookup = "pending"
          THEN proc' = [proc EXCEPT !.i = @ + 1, !.task[proc.i + 1] = "limit"]
          ELSE proc' = [proc EXCEPT !.pc = "send",
                            !.res[proc.i + 1] = IF lookup = "notfound" THEN "skipped"
                                                ELSE "erred"]
    /\ UNCHANGED <<pointerdb, notProc>>

\* ch <- result{...} in the loop, then continue
RvLoopSend ==
    /\ proc.kind = "Reverify" /\ proc.pc = "send"
    /\ Len(proc.ch) < proc.cap
    /\ proc' = [proc EXCEPT !.pc = "dispatch", !.i = @ + 1,
                      !.ch = Append(@, proc.i + 1),
                      !.sent[proc.i + 1] = @ + 1]
    /\ UNCHANGED <<pointerdb, notProc>>

\* the loop over the pieces is over
RvLoopEnd ==
    /\ proc.kind = "Reverify" /\ proc.pc = "dispatch" /\ proc.i = proc.n
    /\ proc' = [proc EXCEPT !.pc = "collect"]
    /\ UNCHANGED <<pointerdb, notProc>>

\* a task's CreateAuditOrderLimit returns
RvLimit(t) ==
    /\ proc.kind = "Reverify" /\ proc.task[t] = "limit"
    /\ \E limit \in {"ok", "offline", "failed"} :
          proc' = IF limit = "ok"
                  THEN [proc EXCEPT !.task[t] = "share"]
                  ELSE [proc EXCEPT !.task[t] = "send",
                             !.res[t] = IF limit = "offline" THEN "offline" ELSE "erred"]
    /\ UNCHANGED <<pointerdb, notProc>>

\* a task's GetShare returns and the hash is compared
RvShare(t) ==
    /\ proc.kind = "Reverify" /\ proc.task[t] = "share"
    /\ \E share \in {"good", "bad", "deadline", "transport"} :
          proc' = [proc EXCEPT !.task[t] = "send",
                        !.res[t] = CASE share = "good" -> "success"
                                     [] share = "bad" -> "failed"
                                     [] share = "deadline" -> "contained"
                                     [] OTHER -> "offline"]
    /\ UNCHANGED <<pointerdb, notProc>>

\* a task's ch <- result{...}, after which the task returns
RvTaskSend(t) ==
    /\ proc.kind = "Reverify" /\ proc.task[t] = "send"
    /\ Len(proc.ch) < proc.cap
    /\ proc' = [proc EXCEPT !.task[t] = "done",
                      !.ch = Append(@, t),
                      !.sent[t] = @ + 1]
    /\ UNCHANGED <<pointerdb, notProc>>

\* one turn of "for range pieces { result := <-ch ... }"; of the report only
\* the combined error is kept
RvReceive ==
    /\ proc.kind = "Reverify" /\ proc.pc = "collect" /\ proc.got < proc.n
    /\ proc.ch # <<>>
    /\ proc' = [proc EXCEPT !.ch = Tail(@), !.got = @ + 1,
                      !.res[Head(proc.ch)] = "",
                      !.err = @ \/ proc.res[Head(proc.ch)] = "erred"]
    /\ UNCHANGED <<pointerdb, notProc>>

\* return report, err
RvReturn ==
    /\ proc.kind = "Reverify" /\ proc.pc = "collect" /\ proc.got = proc.n
    /\ proc' = [proc EXCEPT !.pc = "returned"]
    /\ UNCHANGED <<pointerdb, notProc>>

RvTasks == 1..MaxTasks

RvTaskStep(t) == t \in DOMAIN proc.task /\ (RvLimit(t) \/ RvShare(t) \/ RvTaskSend(t))

NextReverify ==
    \/ RvDispatch
    \/ RvLoopSend
    \/ RvLoopEnd
    \/ \E t \in RvTasks : t \in DOMAIN proc.task /\ RvLimit(t)
    \/ \E t \in RvTasks : t \in DOMAIN proc.task /\ RvShare(t)
    \/ \E t \in RvTasks : t \in DOMAIN proc.task /\ RvTaskSend(t)
    \/ RvReceive
    \/ RvReturn

SpecReverify == InitReverify /\ [][NextReverify]_vars

\* every limit request and every share download returns, and the scheduler
\* runs every goroutine that can take a step
SpecReverifyFair ==
    /\ InitReverify /\ [][NextReverify]_vars
    /\ WF_vars(RvDispatch) /\ WF_vars(RvLoopSend) /\ WF_vars(RvLoopEnd)
    /\ WF_vars(RvReceive) /\ WF_vars(RvReturn)
    /\ \A t \in RvTasks : WF_vars(RvTaskStep(t))

\* a goroutine stands at a send on the result channel
RvSenders ==
    (IF proc.pc = "send" THEN {0} ELSE {})
        \cup {t \in DOMAIN proc.task : proc.task[t] = "send"}

RvReturned == proc.kind = "Reverify" /\ proc.pc = "returned"

\* no send blocks, no piece has two results, and at the return every piece
\* has its one result, all of them received, and every task has finished
RvSafe ==
    proc.kind = "Reverify" =>
        /\ proc.cap = proc.n
        /\ RvSenders # {} => Len(proc.ch) < proc.cap
        /\ \A t \in DOMAIN proc.sent : proc.sent[t] <= 1
        /\ RvReturned =>
              /\ proc.got = proc.n
              /\ proc.ch = <<>>
              /\ \A t \in DOMAIN proc.sent : proc.sent[t] = 1
              /\ \A t \in DOMAIN proc.task : proc.task[t] \in {"none", "done"}

\* C32: Reverify sends exactly one result per piece on a channel whose
\* capacity is the piece count, so no sender ever blocks; it returns only
\* after it has received a result for every piece and every task it spawned
\* has finished, and it returns whenever every limit request and share
\* download returns
C32_ReverifyCollectsAll == []RvSafe /\ <>RvReturned

\* Reverify of MaxTasks pieces returned, having sent results both from the
\* loop and from tasks
C32_Witness ==
    /\ RvReturned /\ proc.n = MaxTasks
    /\ \E t \in DOMAIN proc.task : proc.task[t] = "done"
    /\ \E t \in DOMAIN proc.task : proc.task[t] = "none"

\* ------------------------------------------------------------------------
\* Kademlia: randomIDInRange
\* ------------------------------------------------------------------------
\* the bytes of an ID that are followed (a storj.NodeID has 32)
IdLen == 2

\* the byte values tried in every position: the ends of the byte range
ByteEdges == {0, 1, 254, 255}

BucketIDs == [1..IdLen -> ByteEdges]

\* storj.NodeID{}
ZeroID == [x \in 1..IdLen |-> 0]

\* a value stored in a byte
ByteOf(v) == v % 256

\* the results of rand.Intn(n) that are followed: both ends of [0, n)
IntnPicks(n) == {0, n - 1} \cup (IF n > 2 THEN {1, n - 2} ELSE {})

\* the mutated byte: the step past s is left out
RandByteNoStep(s, k) == s + k
\* s + byte(rand.Intn(int(e-s))) + 1, before it is stored in a byte
RandByte(s, k) == s + k + 1

\* IDs compared as big-endian byte strings
IdLess(a, b) ==
    \E x \in 1..IdLen : a[x] < b[x] /\ \A y \in 1..(x - 1) : a[y] = b[y]

\* the results randomIDInRange can return once bytes 1..x-1 are decided;
\* wrapped tells whether some byte computation went past 255
RECURSIVE RandomIDFrom(_, _, _, _, _, _, _)
RandomIDFrom(start, end, x, randID, divergedHigh, divergedLow, wrapped) ==
    IF x > IdLen
    THEN IF divergedLow
         THEN {[err |-> FALSE, id |-> randID, wrapped |-> wrapped]}
         ELSE IF ~divergedHigh
              THEN {[err |-> TRUE, id |-> ZeroID, wrapped |-> wrapped]}
              ELSE IF randID[IdLen] = start[IdLen]
                   THEN {[err |-> FALSE,
                          id |-> [randID EXCEPT ![IdLen] = ByteOf(start[IdLen] + 1)],
                          wrapped |-> wrapped \/ start[IdLen] + 1 > 255]}
                   ELSE {[err |-> FALSE, id |-> randID, wrapped |-> wrapped]}
    ELSE LET s == IF divergedLow THEN 0 ELSE start[x]
             e == IF divergedHigh THEN 255 ELSE end[x]
         IN IF s > e
            THEN {[err |-> TRUE, id |-> ZeroID, wrapped |-> wrapped]}
            ELSE IF s = e
                 THEN RandomIDFrom(start, end, x + 1, [randID EXCEPT ![x] = s],
                                   divergedHigh, divergedLow, wrapped)
                 ELSE UNION {
                        LET r == ByteOf(RandByte(s, k))
                        IN RandomIDFrom(start, end, x + 1, [randID EXCEPT ![x] = r],
                                        divergedHigh \/ r < e, divergedLow \/ r > s,
                                        wrapped \/ RandByte(s, k) > 255 \/ e - s < 0)
                        : k \in IntnPicks(ByteOf(e - s))}

randomIDInRange(start, end) == RandomIDFrom(start, end, 1, ZeroID, FALSE, FALSE, FALSE)

\* one call of randomIDInRange, as refresh makes it for a bucket
RandomIDCall ==
    /\ calc.fn = ""
    /\ \E start \in BucketIDs, end \in BucketIDs :
          \E out \in randomIDInRange(start, end) :
              calc' = Calc("randomIDInRange", [start |-> start, end |-> end], out)
    /\ UNCHANGED notCalc

NextRandomID ==
    \/ RandomIDCall
    \/ CalcReturn

SpecRandomID == InitPure /\ [][NextRandomID]_vars

\* C34: randomIDInRange(start, end) returns an ID r with start < r <= end
\* whenever start < end, and an error whenever start >= end; no byte
\* computation in it goes past 255
C34_RandomIDInRange ==
    calc.fn = "randomIDInRange" =>
        /\ ~calc.out.wrapped
        /\ IF IdLess(calc.in.start, calc.in.end)
           THEN /\ ~calc.out.err
                /\ IdLess(calc.in.start, calc.out.id)
                /\ ~IdLess(calc.in.end, calc.out.id)
           ELSE calc.out.err

\* an ID strictly inside a range whose start ends in byte 255 and whose
\* first bytes differ
C34_Witness ==
    /\ calc.fn = "randomIDInRange"
    /\ calc.in.start[1] < calc.in.end[1]
    /\ calc.in.start[IdLen] = 255
    /\ ~calc.out.err
    /\ calc.out.id # calc.in.end
    /\ calc.out.id[1] = calc.in.start[1] + 1

\* ------------------------------------------------------------------------
\* uplink: Project.CreateBucket
\* ------------------------------------------------------------------------
\* memory.KiB
KiB == 1024
DefaultRequiredShares == 29
\* 16 bits: half the width of an int32
Half == 2 ^ 16

\* the fields of a BucketConfig that CreateBucket reads; 0 is "not set"
BlockSizes == {0, 3, KiB, 2 * KiB, 29 * KiB, 58 * KiB}
BucketShareSizes == {0, KiB, 2 * KiB, KiB * KiB, KiB * KiB * KiB}
RequiredShareCounts == {0, 1, 2, 4, DefaultRequiredShares, 4 * KiB}
BucketConfigs ==
    [blockSize : BlockSizes, shareSize : BucketShareSizes, requiredShares : RequiredShareCounts]

\* BucketConfig.setDefaults, for the fields above
setDefaults(c) ==
    [blockSize |-> IF c.blockSize = 0 THEN KiB ELSE c.blockSize,
     shareSize |-> IF c.shareSize = 0 THEN KiB ELSE c.shareSize,
     requiredShares |-> IF c.requiredShares = 0 THEN DefaultRequiredShares
                        ELSE c.requiredShares]

\* a * b for 0 <= a < 2^31 and 0 <= b < 2^15, as its upper part and its
\* lower 16 bits
WideProduct(a, b) ==
    LET low == (a % Half) * b
    IN [hi |-> (a \div Half) * b + low \div Half, lo |-> low % Half]

\* a * b as Go computes it on int32 operands: the lower 32 bits, signed
MulInt32(a, b) ==
    LET p == WideProduct(a, b)
        hi == p.hi % Half
    IN IF hi >= Half \div 2 THEN (hi - Half) * Half + p.lo ELSE hi * Half + p.lo

\* the remainder of Go's % (the sign is the dividend's), for m > 0
GoRem(v, m) == IF v >= 0 \/ v % m = 0 THEN v % m ELSE (v % m) - m

\* Project.CreateBucket: the defaults, the block size check, then the
\* project's CreateBucket (assumed to succeed)
CreateBucket(cfg) ==
    LET c == setDefaults(cfg)
    IN IF GoRem(MulInt32(c.shareSize, c.requiredShares), c.blockSize) # 0
       THEN [err |-> "BlockSize must be a multiple of RS ShareSize * RS RequiredShares",
             created |-> FALSE]
       ELSE [err |-> "", created |-> TRUE]

CreateBucketCall ==
    /\ calc.fn = ""
    /\ \E cfg \in BucketConfigs : calc' = Calc("CreateBucket", cfg, CreateBucket(cfg))
    /\ UNCHANGED notCalc

NextBucket ==
    \/ CreateBucketCall
    \/ CalcReturn

SpecBucket == InitPure /\ [][NextBucket]_vars

\* blockSize is a multiple of shareSize * requiredShares, the product taken
\* in the integers
BlockIsMultiple(c) ==
    LET p == WideProduct(c.shareSize, c.requiredShares)
    IN /\ p.hi < Half \div 2
       /\ c.blockSize % (p.hi * Half + p.lo) = 0

\* the product fits in 32 bits
ProductFits(c) == WideProduct(c.shareSize, c.requiredShares).hi < Half \div 2

\* C35: after the defaults are filled in, CreateBucket returns the block
\* size error and creates no bucket exactly when BlockSize is not a multiple
\* of ShareSize * RequiredShares, and the product does not overflow 32 bits
C35_BlockSizeMultiple ==
    calc.fn = "CreateBucket" =>
        LET c == setDefaults(calc.in)
        IN /\ ProductFits(c)
           /\ (calc.out.err # "") = ~BlockIsMultiple(c)
           /\ calc.out.created = BlockIsMultiple(c)

\* ------------------------------------------------------------------------
\* Metainfo endpoint claims: failed commits and deletes
\* ------------------------------------------------------------------------
\* the last RPC was a CommitSegment or a DeleteSegment that did not return OK
WriteFailed ==
    /\ rpcOut.called
    /\ rpcIn.rpc \in {"CommitSegment", "DeleteSegment"}
    /\ rpcOut.status # "OK"

\* C36: when CommitSegment or DeleteSegment returns a non-OK status the
\* pointer database holds exactly the pointers it held before the call
C36_FailedWriteChangesNothing ==
    WriteFailed => pointerdb = rpcBefore

\* a CommitSegment or DeleteSegment that fails while none of the services
\* called after metainfo.Put or metainfo.Delete fails leaves the pointer
\* database as it was
C36_FailedBeforeWrite ==
    (WriteFailed /\ rpcIn.fail = "") => pointerdb = rpcBefore

\* the request lists a piece whose number is outside [0, total) or whose
\* limit, at the index of its number, is nil
BadPieceLimit(req) ==
    \E j \in DOMAIN req.pointer.remote.pieces :
        LET num == req.pointer.remote.pieces[j].num
        IN \/ num < 0
           \/ num >= req.pointer.remote.redundancy.total
           \/ (num < Len(req.limits) /\ req.limits[num + 1].nil)

\* C37: CommitSegment of a REMOTE pointer with a piece whose piece_num is
\* outside [0, total), or whose limit at index piece_num is nil, returns an
\* error status without faulting and stores nothing
C37_BadPieceRejected ==
    (CommitRemote /\ BadPieceLimit(rpcIn.req))
        => /\ rpcOut.status \notin {"OK", "panic"}
           /\ pointerdb = rpcBefore

\* ------------------------------------------------------------------------
\* DeleteSegment and the pending audits
\* ------------------------------------------------------------------------
\* a second segment of the bucket, with its own root piece ID and pieces on
\* two of the nodes that hold the first
OtherRoot == RpcRoot + 1
OtherRemote ==
    RemotePointer(1, "m2", OtherRoot, Scheme(2, 2, 4, 4),
                  <<RemotePiece(0, 1), RemotePiece(1, 2), RemotePiece(2, 5),
                    RemotePiece(3, 6)>>)

\* both segments committed: GoodRemote at path p, OtherRemote at path q
TwoSegments ==
    DbPut(CommitSegment(EmptyDb, Request(FullKey, 1, <<"bucket">>, <<"p">>, 0,
                                         GoodRemote, RpcLimits,
                                         Scheme(2, 2, 4, 4))).db,
          CreatePath(ProjectID, 0, <<"bucket">>, <<"q">>).path, OtherRemote)

\* the pending audit an audit of the segment with that root recorded for a node
PendingOf(node, root) == PendingAudit(node, root, 0, 1, SHA256Hash(0))

\* pending audits of some of the nodes 1, 2 and 3, each for one of the two
\* segments the node holds a piece of
PendingSets ==
    UNION {{roots \in [N -> {RpcRoot, OtherRoot}] :
                \A n \in N : roots[n] = OtherRoot
                    => n \in PieceNodes(OtherRemote.remote.pieces)} :
           N \in SUBSET {1, 2, 3}}

\* the RPCs of the second handler: a delete of either segment, and a commit
\* of the first
ContainCalls ==
    {[rpc |-> "DeleteSegment",
      req |-> Request(FullKey, 2, <<"bucket">>, path, 0, NoPointer, <<>>,
                      NilRedundancy)] : path \in {<<"p">>, <<"q">>}}
        \cup {[rpc |-> "CommitSegment",
               req |-> Request(FullKey, 2, <<"bucket">>, <<"p">>, 0, GoodRemote,
                               RpcLimits, Scheme(2, 2, 4, 4))]}

InitContain ==
    /\ IdleClient /\ IdleRepair /\ IdleCalc
    /\ proc = Other(ContainCalls)
    /\ stripe = [pointer |-> NoPointer, index |-> 0, data |-> <<>>]
    /\ auditIn = [skip |-> {}, online |-> {}, resp |-> <<>>, runs |-> 0, seen |-> <<>>]
    /\ auditRun = [op |-> ""]
    /\ \E roots \in PendingSets :
          containment = [n \in DOMAIN roots |-> PendingOf(n, roots[n])]
    /\ pointerdb = TwoSegments
    /\ rpcIn = NoRpcIn
    /\ rpcBefore = EmptyDb
    /\ rpcOut = NoRpcOut
    /\ rpcRun = NoRpcRun
    /\ rpcs = MaxRpcs - 1

NextContain ==
    \/ CommitSegmentCall
    \/ CommitSegmentOrder
    \/ CommitSegmentGet
    \/ DeleteSegmentCall
    \/ DeleteSegmentDelete
    \/ DeleteSegmentContain
    \/ DeleteSegmentLimits
    \/ RpcReturn
    \/ OtherCall
    \/ OtherStep

SpecContain == InitContain /\ [][NextContain]_vars

\* the pointer the DeleteSegment that makes the step has read
DeletingPointer == IF rpcRun' # rpcRun THEN rpcRun.pointer ELSE proc.run.pointer

\* C38: DeleteSegment removes a node's pending audit only when the record
\* refers to a piece of the segment being deleted; a pending audit a node
\* holds for a different segment is still there after the delete
C38_OnlyOwnPendingRemoved ==
    [][\A n \in DOMAIN containment :
          n \notin DOMAIN containment' =>
              containment[n].pieceID = DeletingPointer.remote.root]_vars

\* a pending audit is removed only from a node that holds a piece of the
\* segment being deleted, and when a DeleteSegment of a remote segment
\* returns OK no node of its pieces has a pending audit
C38_OwnPendingRemoved ==
    [][/\ \A n \in DOMAIN containment :
             n \notin DOMAIN containment' =>
                 n \in PieceNodes(DeletingPointer.remote.pieces)
       /\ (rpcIn.rpc = "DeleteSegment" /\ rpcOut'.called /\ ~rpcOut.called
              /\ rpcOut'.status = "OK" /\ rpcRun.pointer.type = "REMOTE")
            => \A n \in PieceNodes(rpcRun.pointer.remote.pieces) :
                    n \notin DOMAIN containment']_vars

\* ------------------------------------------------------------------------
\* Repair with another operation on the same path at work
\* ------------------------------------------------------------------------
RacePath == <<ProjectID, "l", "bucket", "p">>

\* the RPCs of the second handler, made at a later time: a delete of the
\* path and a commit to it
RaceRequest(pointer) ==
    Request(FullKey, 2, <<"bucket">>, <<"p">>, -1, pointer, RpcLimits, Scheme(2, 2, 4, 4))
RaceCalls ==
    {[rpc |-> "DeleteSegment", req |-> RaceRequest(NoPointer)]}
        \cup {[rpc |-> "CommitSegment", req |-> RaceRequest(pointer)] :
                pointer \in {GoodInline, GoodRemote}}

InitRace ==
    /\ IdleClient /\ IdleAudit /\ IdleRpc /\ IdleCalc
    /\ \E pointer \in CommittedPointers : pointerdb = DbPut(EmptyDb, RacePath, pointer)
    /\ repairIn = NoRepairIn
    /\ repairBefore = EmptyDb
    /\ repairRun = NoRepairRun
    /\ repairs = MaxRepairs - 1
    /\ proc = Other(RaceCalls)

NextRace ==
    \/ RepairCall
    \/ RepairStore
    \/ RepairReturn
    \/ OtherCall
    \/ OtherStep

SpecRace == InitRace /\ [][NextRace]_vars

\* the step in which Repair ends
RaceStoreStep == Repairing /\ repairRun'.called

\* the path no longer holds what Repair read
RaceStale ==
    \/ ~DbHas(pointerdb, repairRun.path)
    \/ ~DbHas(repairBefore, repairRun.path)
    \/ pointerdb[repairRun.path] # repairBefore[repairRun.path]

\* C39: when the pointer was deleted or committed anew by another operation
\* between Repair's read and its store, Repair does not overwrite the newer
\* state: a deleted pointer is not re-created and a newer pointer is not
\* replaced by the repaired copy of the stale one
C39_RepairKeepsNewerState ==
    [][(RaceStoreStep /\ RaceStale) => pointerdb' = pointerdb]_vars

\* with nothing in between, a Repair that succeeds stores the pointer it
\* read with its pieces replaced, and one that fails stores nothing
C39_AloneAsOneCall ==
    [][(RaceStoreStep /\ pointerdb = repairBefore)
          => pointerdb' = Repair(pointerdb, repairRun.path, repairIn).db]_vars

\* ------------------------------------------------------------------------
\* Kademlia: the lookup work group, the operations that enter it, and Close
\* ------------------------------------------------------------------------
MaxOps == 2

KadOps == 1..MaxOps

\* the operations that enter the work group, each with the operations it
\* calls in turn, every one of which enters the group itself
KadFns == {"Bootstrap", "FetchPeerIdentity", "Ping", "FetchInfo", "FindNode", "lookup", "Run"}

CallChain(fn) ==
    CASE fn = "Bootstrap" -> <<"Bootstrap", "lookup">>
      [] fn = "FetchPeerIdentity" -> <<"FetchPeerIdentity", "FindNode", "lookup">>
      [] fn = "FindNode" -> <<"FindNode", "lookup">>
      [] fn = "Run" -> <<"Run", "FindNode", "lookup">>
      [] OTHER -> <<fn>>

\* the operations that call again and again while they are in the group: the
\* backoff loop of Bootstrap around lookup, the refresh cycle of Run around
\* FindNode.  What the operation they call returns does not end them:
\* Bootstrap adds the error to its error group and goes on with the loop,
\* refresh discards what FindNode returns
Loops(fn) == fn \in {"Bootstrap", "Run"}

\* sync2.WorkGroup.Start: refused once the group is closed
GroupStart(group) == ~group.closed

\* the mutated entry: the operation goes on whatever Start returned
EnterAnyway(started) == TRUE
\* if !k.lookups.Start() { return ..., context.Canceled }
Enter(started) == started

IdleOp == [fn |-> "", pc |-> "idle", held |-> 0, late |-> FALSE, contacted |-> FALSE,
         result |-> ""]

InitKad ==
    /\ pointerdb = EmptyDb
    /\ IdleClient /\ IdleAudit /\ IdleRepair /\ IdleRpc /\ IdleCalc
    /\ proc = [kind |-> "Kademlia",
               group |-> [closed |-> FALSE, workers |-> 0],
               close |-> "idle",
               ops |-> [o \in KadOps |-> IdleOp]]

\* an operation is called; late tells whether the work group was already
\* closed at the call
KadCall(o) ==
    /\ proc.kind = "Kademlia" /\ proc.ops[o].pc = "idle"
    /\ \E fn \in KadFns :
          proc' = [proc EXCEPT !.ops[o] = [IdleOp EXCEPT !.fn = fn, !.pc = "start",
                                                  !.late = proc.group.closed]]
    /\ UNCHANGED <<pointerdb, notProc>>

\* the operation, or the operation it has called, enters the work group:
\* k.lookups.Start() and the return of context.Canceled when it is refused.
\* A refused operation that was called from the loop of Bootstrap or the
\* cycle of Run returns to it
KadStart(o) ==
    /\ proc.kind = "Kademlia" /\ proc.ops[o].pc = "start"
    /\ LET op == proc.ops[o]
           chain == CallChain(op.fn)
       IN IF Enter(GroupStart(proc.group))
          THEN proc' = [proc EXCEPT
                          !.group.workers = @ + 1,
                          !.ops[o].held = @ + 1,
                          !.ops[o].pc = IF op.held + 1 = Len(chain) THEN "net"
                                        ELSE IF op.held = 0 /\ Loops(op.fn) THEN "loop"
                                        ELSE "start"]
          ELSE IF op.held > 0 /\ Loops(op.fn)
          THEN proc' = [proc EXCEPT !.ops[o].pc = "back"]
          ELSE proc' = [proc EXCEPT !.ops[o].pc = "unwind",
                                    !.ops[o].result = "Canceled"]
    /\ UNCHANGED <<pointerdb, notProc>>

\* Bootstrap or Run, in the group, at the head of its loop.  Bootstrap
\* returns nil at once when no bootstrap node is configured; it returns its
\* error group when the wait has reached bootstrapBackoffMax or the context
\* is done; otherwise it dials the bootstrap nodes and, when one of them is
\* online, calls lookup.  Run calls FindNode for a stale bucket, until its
\* context is done
KadLoop(o) ==
    /\ proc.kind = "Kademlia" /\ proc.ops[o].pc = "loop"
    /\ LET op == proc.ops[o]
       IN IF op.fn = "Bootstrap"
          THEN \/ /\ ~op.contacted
                  /\ proc' = [proc EXCEPT !.ops[o].pc = "unwind",
                                          !.ops[o].result = "nil"]
               \/ proc' = [proc EXCEPT !.ops[o].pc = "unwind",
                                       !.ops[o].result = "error"]
               \/ \E online \in BOOLEAN :
                     proc' = [proc EXCEPT !.ops[o].contacted = TRUE,
                                          !.ops[o].pc = IF online THEN "start"
                                                        ELSE "loop"]
          ELSE \/ proc' = [proc EXCEPT !.ops[o].pc = "start"]
               \/ proc' = [proc EXCEPT !.ops[o].pc = "unwind",
                                       !.ops[o].result = "context"]
    /\ UNCHANGED <<pointerdb, notProc>>

\* the innermost operation talks to the network and returns.  The lookup of
\* Bootstrap ends it when it succeeded and sends it back to its loop when
\* it failed; the FindNode of Run returns to the cycle
KadNet(o) ==
    /\ proc.kind = "Kademlia" /\ proc.ops[o].pc = "net"
    /\ \E found \in IF proc.ops[o].fn = "Bootstrap" THEN BOOLEAN ELSE {TRUE} :
          IF Loops(proc.ops[o].fn) /\ ~(proc.ops[o].fn = "Bootstrap" /\ found)
          THEN proc' = [proc EXCEPT !.ops[o].pc = "back", !.ops[o].contacted = TRUE]
          ELSE proc' = [proc EXCEPT !.ops[o].pc = "unwind", !.ops[o].contacted = TRUE,
                                    !.ops[o].result =
                                        IF proc.ops[o].fn = "Bootstrap" THEN "nil"
                                        ELSE "answered"]
    /\ UNCHANGED <<pointerdb, notProc>>

\* defer k.lookups.Done() of the innermost operation still in the group;
\* then the return of the outermost one, or for the operations called from
\* a loop the return to the loop
KadDone(o) ==
    /\ proc.kind = "Kademlia" /\ proc.ops[o].pc \in {"unwind", "back"}
    /\ LET op == proc.ops[o]
       IN IF op.pc = "back"
          THEN IF op.held > 1
               THEN proc' = [proc EXCEPT !.group.workers = @ - 1, !.ops[o].held = @ - 1]
               ELSE proc' = [proc EXCEPT !.ops[o].pc = "loop"]
          ELSE IF op.held > 0
          THEN proc' = [proc EXCEPT !.group.workers = @ - 1, !.ops[o].held = @ - 1]
          ELSE proc' = [proc EXCEPT !.ops[o].pc = "returned"]
    /\ UNCHANGED <<pointerdb, notProc>>

\* Kademlia.Close up to k.lookups.Close()
KadClose ==
    /\ proc.kind = "Kademlia" /\ proc.close = "idle"
    /\ proc' = [proc EXCEPT !.group.closed = TRUE, !.close = "waiting"]
    /\ UNCHANGED <<pointerdb, notProc>>

\* k.lookups.Wait() returns once no operation is in the group, and Close
\* returns
KadCloseReturn ==
    /\ proc.kind = "Kademlia" /\ proc.close = "waiting"
    /\ proc.group.workers = 0
    /\ proc' = [proc EXCEPT !.close = "returned"]
    /\ UNCHANGED <<pointerdb, notProc>>

NextKad ==
    \/ \E o \in KadOps : KadCall(o)
    \/ \E o \in KadOps : KadStart(o)
    \/ \E o \in KadOps : KadLoop(o)
    \/ \E o \in KadOps : KadNet(o)
    \/ \E o \in KadOps : KadDone(o)
    \/ KadClose
    \/ KadCloseReturn

SpecKad == InitKad /\ [][NextKad]_vars

\* C33: once Close has closed the lookup work group, every Bootstrap,
\* FindNode, Ping, FetchInfo, FetchPeerIdentity, lookup and Run call that
\* starts afterwards returns context.Canceled without contacting the network,
\* and Close returns only after every operation that had entered the group
\* has left it
C33_ClosedGroupRefuses ==
    proc.kind = "Kademlia" =>
        /\ \A o \in KadOps :
              proc.ops[o].late =>
                  /\ ~proc.ops[o].contacted
                  /\ proc.ops[o].held = 0
                  /\ proc.ops[o].pc = "returned" => proc.ops[o].result = "Canceled"
        /\ proc.close = "returned" =>
              /\ proc.group.workers = 0
              /\ \A o \in KadOps : proc.ops[o].held = 0 /\ proc.ops[o].pc # "net"

\* Close has returned after waiting for a FindNode that was in the group, and
\* a Ping called after the close was refused
C33_Witness ==
    /\ proc.kind = "Kademlia" /\ proc.close = "returned"
    /\ \E o \in KadOps :
          /\ proc.ops[o].fn = "FindNode" /\ ~proc.ops[o].late
          /\ proc.ops[o].contacted /\ proc.ops[o].pc = "returned"
    /\ \E o \in KadOps :
          /\ proc.ops[o].fn = "Ping" /\ proc.ops[o].late
          /\ proc.ops[o].pc = "returned" /\ proc.ops[o].result = "Canceled"

\* ------------------------------------------------------------------------
\* Kademlia: Bootstrap and WaitForBootstrap
\* ------------------------------------------------------------------------
\* the largest bootstrapBackoffBase and bootstrapBackoffMax tried, in units
\* of the sleep
MaxBackoff == 4

\* the most bootstrap nodes configured
MaxBootstrapNodes == 2

InitBootstrap ==
    /\ pointerdb = EmptyDb
    /\ IdleClient /\ IdleAudit /\ IdleRepair /\ IdleRpc /\ IdleCalc
    /\ \E base \in 0..MaxBackoff, max \in 0..MaxBackoff,
          nodes \in 0..MaxBootstrapNodes, closed \in BOOLEAN :
          proc = [kind |-> "Bootstrap", pc |-> "call",
                  bootstrapBackoffBase |-> base, bootstrapBackoffMax |-> max,
                  bootstrapNodes |-> nodes, closed |-> closed,
                  waitInterval |-> 0, later |-> FALSE, node |-> 0,
                  foundOnlineBootstrap |-> FALSE, attempts |-> 0,
                  cancelled |-> FALSE, result |-> "",
                  fence |-> FALSE, waiter |-> "waiting"]

\* the entry of Bootstrap: the work group, the test for bootstrap nodes and
\* waitInterval := k.bootstrapBackoffBase
BsEnter ==
    /\ proc.kind = "Bootstrap" /\ proc.pc = "call"
    /\ proc' = IF ~Enter(~proc.closed)
               THEN [proc EXCEPT !.pc = "exit", !.result = "Canceled"]
               ELSE IF proc.bootstrapNodes = 0
               THEN [proc EXCEPT !.pc = "exit", !.result = "nil"]
               ELSE [proc EXCEPT !.pc = "loop",
                                 !.waitInterval = proc.bootstrapBackoffBase]
    /\ UNCHANGED <<pointerdb, notProc>>

\* waitInterval *= 2
NextWait(waitInterval) == waitInterval * 2

\* the head of the loop: for i := 0; waitInterval < k.bootstrapBackoffMax;
\* i++, and for i > 0 the sleep and the doubling; after the loop the error
\* "unable to start bootstrap after final wait time"
BsLoop ==
    /\ proc.kind = "Bootstrap" /\ proc.pc = "loop"
    /\ proc' = IF proc.waitInterval < proc.bootstrapBackoffMax
               THEN [proc EXCEPT !.pc = "dial", !.node = 1, !.later = TRUE,
                                 !.foundOnlineBootstrap = FALSE,
                                 !.attempts = IF @ < 2 THEN @ + 1 ELSE @,
                                 !.waitInterval = IF proc.later THEN NextWait(@) ELSE @]
               ELSE [proc EXCEPT !.pc = "exit", !.result = "final wait"]
    /\ UNCHANGED <<pointerdb, notProc>>

\* one turn of the loop over the bootstrap nodes: the context is tested, the
\* node is dialled and answers or not; after the last node the attempt goes
\* on to the lookup or is given up
BsDial ==
    /\ proc.kind = "Bootstrap" /\ proc.pc = "dial"
    /\ IF proc.node > proc.bootstrapNodes
       THEN proc' = [proc EXCEPT !.pc = IF proc.foundOnlineBootstrap THEN "lookup"
                                        ELSE "loop"]
       ELSE IF proc.cancelled
       THEN proc' = [proc EXCEPT !.pc = "exit", !.result = "context"]
       ELSE \E answers \in BOOLEAN :
               proc' = [proc EXCEPT !.node = @ + 1,
                                    !.foundOnlineBootstrap = @ \/ answers]
    /\ UNCHANGED <<pointerdb, notProc>>

\* k.lookup(ctx, id, true): nil is returned when it succeeds, the loop goes
\* on when it fails
BsLookup ==
    /\ proc.kind = "Bootstrap" /\ proc.pc = "lookup"
    /\ \E found \in BOOLEAN :
          proc' = IF found THEN [proc EXCEPT !.pc = "exit", !.result = "nil"]
                  ELSE [proc EXCEPT !.pc = "loop"]
    /\ UNCHANGED <<pointerdb, notProc>>

\* the deferred calls at the return: k.lookups.Done() and
\* k.bootstrapFinished.Release()
BsExit ==
    /\ proc.kind = "Bootstrap" /\ proc.pc = "exit"
    /\ proc' = [proc EXCEPT !.pc = "returned", !.fence = TRUE]
    /\ UNCHANGED <<pointerdb, notProc>>

\* the caller cancels the context
BsCancel ==
    /\ proc.kind = "Bootstrap" /\ proc.pc \notin {"returned", "exit"} /\ ~proc.cancelled
    /\ proc' = [proc EXCEPT !.cancelled = TRUE]
    /\ UNCHANGED <<pointerdb, notProc>>

\* WaitForBootstrap: k.bootstrapFinished.Wait() returns once the fence is
\* released
BsWaitReturn ==
    /\ proc.kind = "Bootstrap" /\ proc.waiter = "waiting" /\ proc.fence
    /\ proc' = [proc EXCEPT !.waiter = "returned"]
    /\ UNCHANGED <<pointerdb, notProc>>

NextBootstrap ==
    \/ BsEnter
    \/ BsLoop
    \/ BsDial
    \/ BsLookup
    \/ BsExit
    \/ BsCancel
    \/ BsWaitReturn

SpecBootstrap == InitBootstrap /\ [][NextBootstrap]_vars

\* every step of Bootstrap and of the waiter is taken in the end: sleeps,
\* dials and lookups return; nothing is assumed about the caller cancelling
SpecBootstrapFair ==
    /\ InitBootstrap /\ [][NextBootstrap]_vars
    /\ WF_vars(BsEnter) /\ WF_vars(BsLoop) /\ WF_vars(BsDial) /\ WF_vars(BsLookup)
    /\ WF_vars(BsExit) /\ WF_vars(BsWaitReturn)

BsReturned == proc.kind = "Bootstrap" /\ proc.pc = "returned"

\* what Bootstrap returns is as stated, and the fence is released at the
\* return
BsExitPaths ==
    BsReturned =>
        /\ proc.fence
        /\ (~proc.closed /\ proc.bootstrapNodes = 0) =>
               proc.result = "nil" /\ proc.attempts = 0
        /\ (proc.result = "nil" /\ proc.bootstrapNodes > 0) => proc.foundOnlineBootstrap
        /\ proc.result = "final wait" =>
               proc.waitInterval >= proc.bootstrapBackoffMax

\* C40: Bootstrap always terminates, for every bootstrapBackoffBase and
\* bootstrapBackoffMax: with no bootstrap node it returns nil at once,
\* otherwise it makes attempts separated by waits that start at the base and
\* double, returns nil at the first attempt that succeeds and an error once
\* the wait has reached the maximum; the fence is released on every exit
\* path, so WaitForBootstrap returns in the end
C40_BootstrapTerminates ==
    /\ []BsExitPaths
    /\ <>BsReturned
    /\ <>(proc.waiter = "returned")

\* with a positive bootstrapBackoffBase Bootstrap terminates and the waiter
\* is let through
C40_TerminatesIfBasePositive ==
    proc.bootstrapBackoffBase > 0 =>
        ([]BsExitPaths /\ <>BsReturned /\ <>(proc.waiter = "returned"))
====
